---- MODULE Spec2Model ----
(***************************************************************************)
(* Radiant lending protocol (programs/radiant): the accounting core.       *)
(*                                                                         *)
(* State: the clock sysvar, the lending market, the reserves with their    *)
(* token vaults, and one obligation per user; beside them the instruction  *)
(* that succeeded last, the interest that refreshes have added to each     *)
(* reserve's total_borrows, and what is left of the exploration bounds.    *)
(* Every                                                                   *)
(* instruction handler is a pure operator from the accounts it is given to *)
(* an outcome record (error code plus the accounts as the handler leaves   *)
(* them); the action of that instruction commits the outcome when the      *)
(* error code is "Ok" and leaves all accounts untouched otherwise, which    *)
(* is how the runtime treats a transaction that returns Err.               *)
(*                                                                         *)
(* Number ranges.  TLC evaluates over 32-bit integers, so the two large     *)
(* fixed-point scales are carried at a reduced scale: INDEX_ONE is 10^4    *)
(* here (10^18 in constants.rs) and the clock's unix_timestamp counts      *)
(* quarter years, so SECONDS_PER_YEAR is 4 here (31 536 000 in             *)
(* constants.rs).  All formulas are the source's formulas over these       *)
(* scales, with the source's truncating divisions.  Token amounts, basis   *)
(* points and slots are unscaled.  The u64/u128 overflow branches          *)
(* (MathOverflow of checked_add / checked_mul) are out of reach of the     *)
(* bounded amounts and are not modelled; checked_sub underflow is.         *)
(*                                                                         *)
(* User token accounts are outside the program: a user is assumed to hold  *)
(* the tokens a transfer into a vault needs.  Transfers out of a vault     *)
(* fail when the vault holds less than the amount (SPL token program).     *)
(***************************************************************************)
EXTENDS Integers, Sequences, FiniteSets, TLC

\* ---------------------------------------------------------------- constants
BPS_DENOMINATOR == 10000
INDEX_ONE == 10000
USD_SCALE == 1000000
SECONDS_PER_YEAR == 4
DEFAULT_CLOSE_FACTOR_BPS == 5000
DEFAULT_LIQUIDATION_BONUS_BPS == 500
DEFAULT_PROTOCOL_FEE_BPS == 1000
DEFAULT_OPTIMAL_UTILIZATION_BPS == 8000
DEFAULT_BASE_RATE_BPS == 200
DEFAULT_SLOPE1_BPS == 1000
DEFAULT_SLOPE2_BPS == 10000
DEFAULT_RESERVE_FACTOR_BPS == 1000
MAX_RESERVES == 32
MAX_OBLIGATION_DEPOSITS == 8
MAX_OBLIGATION_BORROWS == 8
MAX_RESERVE_STALENESS_SLOTS == 1500
MIN_HEALTH_FACTOR_AFTER_BORROW == 10000
MIN_DEPOSIT_AMOUNT == 1000
MIN_BORROW_AMOUNT == 1000

\* ------------------------------------------------------------------- bounds
\* number of clock advances explored
MaxTicks == 1
\* largest total_deposits a deposit is explored up to
MaxTotalDeposits == 1500
\* number of successful user and admin instructions explored
MaxOps == 4
\* number of successful admin instructions among them
MaxAdminOps == 1
\* number of successful instructions explored in a market of one reserve
MaxOpsSingle == 5
\* highest utilization, in basis points, the rate curve is followed up to
MaxUtilization == 10001

Reserves == {"r1", "r2"}
Users == {"u1", "u2"}
\* Option::None where the Some values are non-negative integers (an index, a
\* health factor)
NONE == -1
\* Option<T> of instruction parameters: None is the empty set, Some(v) is {v}
None == {}
Some(v) == {v}
UnwrapOr(opt, default) == IF opt = {} THEN default ELSE CHOOSE v \in opt : TRUE

\* ------------------------------------------------------------ integer helpers
Min(a, b) == IF a <= b THEN a ELSE b

\* floor(a * b / c) on naturals, evaluated without forming the product a * b:
\* the u128 intermediate of the source holds every product of two u64 values,
\* the integers of the model checker do not.
MulDiv(a, b, c) == (a \div c) * b + ((a % c) * b) \div c

\* fault: nothing is subtracted
SaturatingSub_nothing(a, b) == a

\* u64::saturating_sub / u128::saturating_sub
SaturatingSub(a, b) == IF a >= b THEN a - b ELSE 0

\* --------------------------------------------------------- failed instruction
\* An instruction that returns Err fails its transaction: the runtime drops
\* every account write and every token transfer made up to that point.
\* before: the accounts when the handler starts; reached: the accounts where
\* the handler stops.
\* fault: what was written before the error stays
TransactionFails_keeps_writes(e, before, reached) == [reached EXCEPT !.err = e]

TransactionFails(e, before, reached) == [before EXCEPT !.err = e]

\* ---------------------------------------------------------- state/reserve.rs
\* floor(a * 10000 / c), the u128 quotient of the source, taken by long
\* division in base 100 so that no intermediate product exceeds 100 * c
BpsOf(a, c) ==
    LET r1 == a % c
        r2 == (r1 * 100) % c
    IN (a \div c) * 10000 + ((r1 * 100) \div c) * 100 + (r2 * 100) \div c

calculate_utilization_bps(rsv) ==
    IF rsv.liquidity.total_deposits = 0 THEN 0
    ELSE BpsOf(rsv.liquidity.total_borrows, rsv.liquidity.total_deposits)

\* fault: the borrowed part of the deposits counts as available
available_liquidity_with_borrowed(rsv) == rsv.liquidity.total_deposits

available_liquidity(rsv) ==
    SaturatingSub(rsv.liquidity.total_deposits, rsv.liquidity.total_borrows)

\* fault: a reserve exactly max_age_slots old counts as stale
is_stale_inclusive(rsv, current_slot, max_age_slots) ==
    current_slot >= rsv.last_update_slot + max_age_slots

is_stale(rsv, current_slot, max_age_slots) ==
    current_slot > rsv.last_update_slot + max_age_slots

\* fault: the interest rate configuration is not validated
validate_config_thresholds_only(config) ==
    /\ config.ltv_bps < config.liquidation_threshold_bps
    /\ config.liquidation_threshold_bps <= 10000

validate_config(config) ==
    /\ config.ltv_bps < config.liquidation_threshold_bps
    /\ config.liquidation_threshold_bps <= 10000
    /\ config.interest_rate_config.optimal_utilization_bps <= 10000
    /\ config.interest_rate_config.reserve_factor_bps <= 10000

\* fault: the rate does not rise with the utilization
calculate_borrow_rate_flat(irc, utilization_bps) == irc.base_rate_bps

calculate_borrow_rate_slope_rate(irc, utilization_bps) ==
    IF irc.optimal_utilization_bps = 0 THEN 0
    ELSE (utilization_bps * irc.slope1_bps) \div irc.optimal_utilization_bps

calculate_borrow_rate_steep_rate_from_full(irc, utilization_bps) ==
    LET excess_utilization == 10000 - utilization_bps
        remaining_utilization == 10000 - irc.optimal_utilization_bps
    IN IF remaining_utilization = 0 THEN irc.slope2_bps
       ELSE (excess_utilization * irc.slope2_bps) \div remaining_utilization

calculate_borrow_rate_steep_rate(irc, utilization_bps) ==
    LET excess_utilization == utilization_bps - irc.optimal_utilization_bps
        remaining_utilization == 10000 - irc.optimal_utilization_bps
    IN IF remaining_utilization = 0 THEN irc.slope2_bps
       ELSE (excess_utilization * irc.slope2_bps) \div remaining_utilization

calculate_borrow_rate(irc, utilization_bps) ==
    IF utilization_bps <= irc.optimal_utilization_bps
    THEN irc.base_rate_bps
             + calculate_borrow_rate_slope_rate(irc, utilization_bps)
    ELSE irc.base_rate_bps + irc.slope1_bps
             + calculate_borrow_rate_steep_rate(irc, utilization_bps)

calculate_supply_rate_gross(irc, borrow_rate_bps, utilization_bps) ==
    MulDiv(borrow_rate_bps, utilization_bps, 10000)

calculate_supply_rate(irc, borrow_rate_bps, utilization_bps) ==
    LET gross_supply_rate == MulDiv(borrow_rate_bps, utilization_bps, 10000)
        protocol_cut == (gross_supply_rate * irc.reserve_factor_bps) \div 10000
    IN gross_supply_rate - protocol_cut

\* The "update interest rates based on new utilization" block that
\* refresh_reserve, borrow and repay end with.
WithUpdatedRates(rsv) ==
    LET utilization_bps == calculate_utilization_bps(rsv)
        borrow_rate == calculate_borrow_rate(rsv.config.interest_rate_config,
                                             utilization_bps)
        supply_rate == calculate_supply_rate(rsv.config.interest_rate_config,
                                             borrow_rate, utilization_bps)
    IN [rsv EXCEPT !.liquidity.current_borrow_rate_bps = borrow_rate,
                   !.liquidity.current_supply_rate_bps = supply_rate]

\* The "update timestamps" block of the handlers that touch a reserve.
WithTimestamps(rsv, clk) ==
    [rsv EXCEPT !.last_update_slot = clk.slot,
                !.last_update_timestamp = clk.unix_timestamp]

\* ------------------------------------------------------- state/obligation.rs
calculate_health_factor(obl) ==
    IF obl.borrowed_value_usd = 0 THEN NONE
    ELSE (obl.unhealthy_borrow_value_usd * 10000) \div obl.borrowed_value_usd

\* fault: a health factor of exactly 10 000 counts as healthy
is_healthy_inclusive(obl) ==
    LET health == calculate_health_factor(obl)
    IN IF health = NONE THEN TRUE ELSE health >= 10000

is_healthy(obl) ==
    LET health == calculate_health_factor(obl)
    IN IF health = NONE THEN TRUE ELSE health > 10000

\* fault: every obligation counts as liquidatable
is_liquidatable_always(obl) == TRUE

is_liquidatable(obl) == ~is_healthy(obl)

remaining_borrow_capacity_usd(obl) ==
    SaturatingSub(obl.allowed_borrow_value_usd, obl.borrowed_value_usd)

\* Vec::iter().position(..): the first matching index (1-based here), NONE
\* when there is none.
Position(entries, reserve) ==
    LET hits == {i \in 1..Len(entries) : entries[i].reserve = reserve}
    IN IF hits = {} THEN NONE
       ELSE CHOOSE i \in hits : \A j \in hits : i <= j

\* fault: the deposit entry of a reserve is never found
find_deposit_never(obl, reserve) == NONE

find_deposit(obl, reserve) == Position(obl.deposits, reserve)

find_borrow(obl, reserve) == Position(obl.borrows, reserve)

has_deposits(obl) == Len(obl.deposits) > 0

has_borrows(obl) == Len(obl.borrows) > 0

\* fault: the first entry is removed, whatever the index
Remove_first(entries, index) == Tail(entries)

\* Vec::remove(index)
Remove(entries, index) ==
    SubSeq(entries, 1, index - 1) \o SubSeq(entries, index + 1, Len(entries))

\* the inline "amount with interest" of the handlers:
\* if snapshot > 0 { amount * current_index / snapshot } else { amount }
\* fault: the interest accrued since the snapshot is left out
AmountWithInterest_principal(amount, current_index, snapshot) == amount

AmountWithInterest(amount, current_index, snapshot) ==
    IF snapshot > 0 THEN MulDiv(amount, current_index, snapshot) ELSE amount

\* fault: the new entry records one token less than was deposited
ObligationCollateral_new_short(reserve, amount, supply_index) ==
    [reserve |-> reserve, deposited_amount |-> amount - 1,
     supply_index_snapshot |-> supply_index, market_value_usd |-> 0]

ObligationCollateral_new(reserve, amount, supply_index) ==
    [reserve |-> reserve, deposited_amount |-> amount,
     supply_index_snapshot |-> supply_index, market_value_usd |-> 0]

\* fault: the new entry is created without its index snapshot
ObligationLiquidity_new_no_snapshot(reserve, amount, borrow_index) ==
    [reserve |-> reserve, borrowed_amount |-> amount,
     borrow_index_snapshot |-> 0, market_value_usd |-> 0]

ObligationLiquidity_new(reserve, amount, borrow_index) ==
    [reserve |-> reserve, borrowed_amount |-> amount,
     borrow_index_snapshot |-> borrow_index, market_value_usd |-> 0]

\* --------------------------- instructions/admin/initialize_lending_market.rs
\* params: [close_factor_bps, liquidation_bonus_bps, protocol_fee_bps], each an
\* Option<u16>.
validate_close_factor(close_factor_bps) == close_factor_bps <= 10000

validate_liquidation_bonus(bonus_bps) == bonus_bps <= 2500

initialize_lending_market(params) ==
    LET close_factor == UnwrapOr(params.close_factor_bps,
                                 DEFAULT_CLOSE_FACTOR_BPS)
        liq_bonus == UnwrapOr(params.liquidation_bonus_bps,
                              DEFAULT_LIQUIDATION_BONUS_BPS)
        protocol_fee == UnwrapOr(params.protocol_fee_bps,
                                 DEFAULT_PROTOCOL_FEE_BPS)
        lending_market == [emergency_mode |-> FALSE,
                           close_factor_bps |-> close_factor,
                           liquidation_bonus_bps |-> liq_bonus,
                           protocol_fee_bps |-> protocol_fee,
                           reserves_count |-> 0]
    IN IF ~validate_close_factor(close_factor)
       THEN [err |-> "InvalidCloseFactor", lending_market |-> lending_market]
       ELSE IF ~validate_liquidation_bonus(liq_bonus)
       THEN [err |-> "InvalidLiquidationBonus", lending_market |-> lending_market]
       ELSE IF ~(protocol_fee <= 10000)
       THEN [err |-> "InvalidProtocolFee", lending_market |-> lending_market]
       ELSE [err |-> "Ok", lending_market |-> lending_market]

\* ---------------------------------- instructions/admin/initialize_reserve.rs
DefaultInterestRateConfig ==
    [optimal_utilization_bps |-> DEFAULT_OPTIMAL_UTILIZATION_BPS,
     base_rate_bps |-> DEFAULT_BASE_RATE_BPS,
     slope1_bps |-> DEFAULT_SLOPE1_BPS,
     slope2_bps |-> DEFAULT_SLOPE2_BPS,
     reserve_factor_bps |-> DEFAULT_RESERVE_FACTOR_BPS]

\* params: [ltv_bps, liquidation_threshold_bps, deposit_limit: Option<u64>,
\* borrow_limit: Option<u64>, interest_rate_config: Option<config>].
\* fault: the indexes start at 1 instead of INDEX_ONE
InitialReserveLiquidity_unscaled ==
    [total_deposits |-> 0,
     total_borrows |-> 0,
     accumulated_protocol_fees |-> 0,
     cumulative_borrow_index |-> 1,
     cumulative_supply_index |-> 1,
     current_borrow_rate_bps |-> 0,
     current_supply_rate_bps |-> 0]

\* the ReserveLiquidity a new reserve starts with
InitialReserveLiquidity ==
    [total_deposits |-> 0,
     total_borrows |-> 0,
     accumulated_protocol_fees |-> 0,
     cumulative_borrow_index |-> INDEX_ONE,
     cumulative_supply_index |-> INDEX_ONE,
     current_borrow_rate_bps |-> 0,
     current_supply_rate_bps |-> 0]

initialize_reserve(mkt, params, clk) ==
    LET interest_config == UnwrapOr(params.interest_rate_config,
                                    DefaultInterestRateConfig)
        config == [ltv_bps |-> params.ltv_bps,
                   liquidation_threshold_bps |-> params.liquidation_threshold_bps,
                   deposit_limit |-> UnwrapOr(params.deposit_limit, 0),
                   borrow_limit |-> UnwrapOr(params.borrow_limit, 0),
                   deposits_enabled |-> TRUE,
                   borrows_enabled |-> TRUE,
                   interest_rate_config |-> interest_config]
        reserve == [last_update_slot |-> clk.slot,
                    last_update_timestamp |-> clk.unix_timestamp,
                    config |-> config,
                    liquidity |-> InitialReserveLiquidity]
        out(e) == [err |-> e, reserve |-> reserve,
                   lending_market |->
                       IF e = "Ok"
                       THEN [mkt EXCEPT !.reserves_count = mkt.reserves_count + 1]
                       ELSE mkt]
    IN IF ~(params.ltv_bps < params.liquidation_threshold_bps)
       THEN out("InvalidLtvThreshold")
       ELSE IF ~(params.liquidation_threshold_bps <= 10000)
       THEN out("InvalidLiquidationThreshold")
       ELSE IF ~(mkt.reserves_count < MAX_RESERVES)
       THEN out("MaxReservesReached")
       ELSE IF ~validate_config(config)
       THEN out("InvalidReserveConfig")
       ELSE out("Ok")

\* ----------------------------------- instructions/user/initialize_obligation.rs
\* last_update_slot of an obligation is written by the handlers and read by
\* none of them; it is left out of the obligation record.
initialize_obligation(owner) ==
    [owner |-> owner,
     deposits |-> <<>>,
     borrows |-> <<>>,
     deposited_value_usd |-> 0,
     borrowed_value_usd |-> 0,
     allowed_borrow_value_usd |-> 0,
     unhealthy_borrow_value_usd |-> 0]

\* ---------------------------------- instructions/admin/set_emergency_mode.rs
\* has_one = authority on the lending market account rejects other signers.
set_emergency_mode(mkt, is_authority, emergency) ==
    IF ~is_authority
    THEN [err |-> "ConstraintHasOne", lending_market |-> mkt]
    ELSE [err |-> "Ok",
          lending_market |-> [mkt EXCEPT !.emergency_mode = emergency]]

\* ------------------------- instructions/permissionless/refresh_reserve.rs
calculate_compound_factor(rate_bps, time_elapsed_seconds) ==
    LET denominator == 10000 * SECONDS_PER_YEAR
    IN MulDiv(rate_bps * time_elapsed_seconds, INDEX_ONE, denominator)

calculate_interest_earned(principal, compound_factor) ==
    MulDiv(principal, compound_factor, INDEX_ONE)

\* outcome: the reserve as the handler leaves it and the interest it added to
\* total_borrows
\* fault: the slot of the last update counts as elapsed
slots_elapsed_inclusive(rsv, clk) ==
    SaturatingSub(clk.slot, rsv.last_update_slot) + 1

slots_elapsed(rsv, clk) == SaturatingSub(clk.slot, rsv.last_update_slot)

\* fault: the elapsed time is not capped
refresh_reserve_time_elapsed_uncapped(time_elapsed) == time_elapsed

\* let time_elapsed_capped = time_elapsed.min(SECONDS_PER_YEAR as i64)
refresh_reserve_time_elapsed_capped(time_elapsed) ==
    Min(time_elapsed, SECONDS_PER_YEAR)

\* fault: the fee is taken as if the reserve factor were in percent
refresh_reserve_protocol_fee_percent(interest_earned, reserve_factor_bps) ==
    (interest_earned * reserve_factor_bps) \div 100

\* let protocol_fee = interest_earned * reserve_factor_bps / 10000
refresh_reserve_protocol_fee(interest_earned, reserve_factor_bps) ==
    (interest_earned * reserve_factor_bps) \div 10000

refresh_reserve(rsv, clk) ==
    LET time_elapsed == clk.unix_timestamp - rsv.last_update_timestamp
        liq == rsv.liquidity
        time_elapsed_capped == refresh_reserve_time_elapsed_capped(time_elapsed)
        borrow_compound_factor ==
            calculate_compound_factor(liq.current_borrow_rate_bps,
                                      time_elapsed_capped)
        new_borrow_index ==
            MulDiv(liq.cumulative_borrow_index,
                   INDEX_ONE + borrow_compound_factor, INDEX_ONE)
        interest_earned ==
            calculate_interest_earned(liq.total_borrows, borrow_compound_factor)
        protocol_fee ==
            refresh_reserve_protocol_fee(
                interest_earned,
                rsv.config.interest_rate_config.reserve_factor_bps)
        supply_interest == SaturatingSub(interest_earned, protocol_fee)
        supply_compound_factor ==
            IF liq.total_deposits > 0
            THEN (supply_interest * INDEX_ONE) \div liq.total_deposits
            ELSE 0
        new_supply_index ==
            liq.cumulative_supply_index
                + MulDiv(liq.cumulative_supply_index, supply_compound_factor,
                         INDEX_ONE)
        accrued ==
            [rsv EXCEPT
                !.liquidity.total_borrows = liq.total_borrows + interest_earned,
                !.liquidity.accumulated_protocol_fees =
                    liq.accumulated_protocol_fees + protocol_fee,
                !.liquidity.cumulative_borrow_index = new_borrow_index,
                !.liquidity.cumulative_supply_index = new_supply_index]
    IN IF slots_elapsed(rsv, clk) = 0
       THEN [err |-> "Ok", reserve |-> rsv, interest_earned |-> 0]
       ELSE IF liq.total_borrows > 0 /\ time_elapsed > 0
       THEN IF ~(new_borrow_index >= liq.cumulative_borrow_index)
               \/ ~(new_supply_index >= liq.cumulative_supply_index)
            THEN [err |-> "InvalidIndexCalculation", reserve |-> rsv,
                  interest_earned |-> 0]
            ELSE [err |-> "Ok",
                  reserve |-> WithTimestamps(WithUpdatedRates(accrued), clk),
                  interest_earned |-> interest_earned]
       ELSE [err |-> "Ok",
             reserve |-> WithTimestamps(WithUpdatedRates(rsv), clk),
             interest_earned |-> 0]

\* ----------------------- instructions/permissionless/refresh_obligation.rs
\* (amount as u128) * USD_SCALE / 1_000_000.  USD_SCALE is a multiple of
\* 1_000_000 and the u128 product cannot overflow, so the quotient is taken
\* of the scale first to stay inside the model checker's integers.
PlaceholderUsd(amount) == amount * (USD_SCALE \div 1000000)

RECURSIVE SumOver(_, _)
SumOver(values, n) == IF n = 0 THEN 0 ELSE values[n] + SumOver(values, n - 1)

refresh_obligation(obl) ==
    LET deposits == [i \in 1..Len(obl.deposits) |->
                        [obl.deposits[i] EXCEPT !.market_value_usd =
                            PlaceholderUsd(obl.deposits[i].deposited_amount)]]
        borrows == [i \in 1..Len(obl.borrows) |->
                        [obl.borrows[i] EXCEPT !.market_value_usd =
                            PlaceholderUsd(obl.borrows[i].borrowed_amount)]]
        ltv_bps == 8000
        liq_threshold_bps == 8500
        n == Len(deposits)
    IN [obl EXCEPT
           !.deposits = deposits,
           !.borrows = borrows,
           !.deposited_value_usd =
               SumOver([i \in 1..n |-> deposits[i].market_value_usd], n),
           !.borrowed_value_usd =
               SumOver([i \in 1..Len(borrows) |-> borrows[i].market_value_usd],
                       Len(borrows)),
           !.allowed_borrow_value_usd =
               SumOver([i \in 1..n |->
                   MulDiv(deposits[i].market_value_usd, ltv_bps, 10000)], n),
           !.unhealthy_borrow_value_usd =
               SumOver([i \in 1..n |->
                   MulDiv(deposits[i].market_value_usd, liq_threshold_bps,
                          10000)], n)]

\* --------------------------------------------- instructions/user/deposit.rs
\* Outcome of the user instructions: err, and the reserve, obligation and
\* vault balance as the handler leaves them.  The account constraints of the
\* Accounts struct are evaluated before the handler body, in field order.
\* fault: the emergency constraint is missing
DepositAccounts_no_emergency(mkt, rsv, obl, signer) ==
    IF ~rsv.config.deposits_enabled THEN "DepositsDisabled"
    ELSE IF obl.owner # signer THEN "InvalidObligationOwner"
    ELSE "Ok"

\* The constraints of the Deposit accounts struct, in field order: the error of
\* the first one that fails, "Ok" when none does.
DepositAccounts(mkt, rsv, obl, signer) ==
    IF mkt.emergency_mode THEN "EmergencyModeActive"
    ELSE IF ~rsv.config.deposits_enabled THEN "DepositsDisabled"
    ELSE IF obl.owner # signer THEN "InvalidObligationOwner"
    ELSE "Ok"

\* fault: the limit is compared with the deposits before the new amount
deposit_limit_exceeded_before(rsv, amount) ==
    /\ rsv.config.deposit_limit > 0
    /\ ~(rsv.liquidity.total_deposits <= rsv.config.deposit_limit)

\* if reserve.config.deposit_limit > 0 { require!(total_deposits + amount
\*     <= reserve.config.deposit_limit, DepositLimitExceeded) }
deposit_limit_exceeded(rsv, amount) ==
    /\ rsv.config.deposit_limit > 0
    /\ ~(rsv.liquidity.total_deposits + amount <= rsv.config.deposit_limit)

deposit(mkt, rsv, reserve_key, obl, vlt, clk, signer, amount) ==
    LET out(e, r, o, v) == [err |-> e, reserve |-> r, obligation |-> o, vault |-> v]
        fail_after(e, r, o, v) ==
            TransactionFails(e, out("Ok", rsv, obl, vlt), out("Ok", r, o, v))
        fail(e) == fail_after(e, rsv, obl, vlt)
        rsv1 == [rsv EXCEPT !.liquidity.total_deposits =
                                rsv.liquidity.total_deposits + amount]
        current_supply_index == rsv1.liquidity.cumulative_supply_index
        deposit_index == find_deposit(obl, reserve_key)
        entry == obl.deposits[deposit_index]
        current_amount == (entry.deposited_amount * current_supply_index)
                              \div entry.supply_index_snapshot
        new_amount == current_amount + amount
        obl1 == IF deposit_index # NONE
                THEN [obl EXCEPT !.deposits[deposit_index] =
                         [entry EXCEPT !.deposited_amount = new_amount,
                                       !.supply_index_snapshot =
                                           current_supply_index]]
                ELSE [obl EXCEPT !.deposits =
                         Append(obl.deposits,
                                ObligationCollateral_new(reserve_key, amount,
                                                         current_supply_index))]
    IN IF DepositAccounts(mkt, rsv, obl, signer) # "Ok"
       THEN fail(DepositAccounts(mkt, rsv, obl, signer))
       ELSE IF ~(amount > 0) THEN fail("AmountZero")
       ELSE IF ~(amount >= MIN_DEPOSIT_AMOUNT) THEN fail("AmountTooSmall")
       ELSE IF is_stale(rsv, clk.slot, MAX_RESERVE_STALENESS_SLOTS)
       THEN fail("ReserveStale")
       ELSE IF deposit_limit_exceeded(rsv, amount)
       THEN fail("DepositLimitExceeded")
       ELSE IF deposit_index = NONE
               /\ ~(Len(obl.deposits) < MAX_OBLIGATION_DEPOSITS)
       THEN fail_after("MaxDepositsReached", rsv1, obl, vlt + amount)
       ELSE out("Ok", WithTimestamps(rsv1, clk), obl1, vlt + amount)

\* -------------------------------------------- instructions/user/withdraw.rs
withdraw(mkt, rsv, reserve_key, obl, vlt, clk, signer, amount) ==
    LET out(e, r, o, v) == [err |-> e, reserve |-> r, obligation |-> o, vault |-> v]
        fail_after(e, r, o, v) ==
            TransactionFails(e, out("Ok", rsv, obl, vlt), out("Ok", r, o, v))
        fail(e) == fail_after(e, rsv, obl, vlt)
        deposit_index == find_deposit(obl, reserve_key)
        current_supply_index == rsv.liquidity.cumulative_supply_index
        deposit_entry == obl.deposits[deposit_index]
        current_deposit_amount ==
            AmountWithInterest(deposit_entry.deposited_amount, current_supply_index,
                               deposit_entry.supply_index_snapshot)
        withdraw_amount == IF amount = 0 THEN current_deposit_amount ELSE amount
        remaining_deposit == current_deposit_amount - withdraw_amount
        withdraw_ratio == IF current_deposit_amount > 0
                          THEN (withdraw_amount * 10000)
                                   \div current_deposit_amount
                          ELSE 0
        withdraw_value_usd == (deposit_entry.market_value_usd * withdraw_ratio)
                                  \div 10000
        new_deposited_value_usd ==
            SaturatingSub(obl.deposited_value_usd, withdraw_value_usd)
        new_allowed_borrow_value_usd ==
            (new_deposited_value_usd * rsv.config.ltv_bps) \div 10000
        new_unhealthy_borrow_value_usd ==
            (new_deposited_value_usd * rsv.config.liquidation_threshold_bps)
                \div 10000
        new_health_factor ==
            (new_unhealthy_borrow_value_usd * 10000) \div obl.borrowed_value_usd
        rsv1 == [rsv EXCEPT !.liquidity.total_deposits =
                                rsv.liquidity.total_deposits - withdraw_amount]
        obl1 == IF remaining_deposit = 0
                THEN [obl EXCEPT !.deposits = Remove(obl.deposits, deposit_index)]
                ELSE [obl EXCEPT !.deposits[deposit_index] =
                         [deposit_entry EXCEPT !.deposited_amount = remaining_deposit,
                                         !.supply_index_snapshot =
                                             current_supply_index]]
    IN IF obl.owner # signer THEN fail("InvalidObligationOwner")
       ELSE IF is_stale(rsv, clk.slot, MAX_RESERVE_STALENESS_SLOTS)
       THEN fail("ReserveStale")
       ELSE IF deposit_index = NONE THEN fail("NoDepositFound")
       ELSE IF ~(withdraw_amount <= current_deposit_amount)
       THEN fail("InsufficientDeposit")
       ELSE IF ~(withdraw_amount <= available_liquidity(rsv))
       THEN fail("InsufficientLiquidity")
       ELSE IF ~(vlt >= withdraw_amount) THEN fail("InsufficientVaultBalance")
       ELSE IF has_borrows(obl)
               /\ ~(obl.borrowed_value_usd <= new_allowed_borrow_value_usd)
       THEN fail("InsufficientBorrowCapacity")
       ELSE IF has_borrows(obl) /\ obl.borrowed_value_usd > 0
               /\ ~(new_health_factor >= MIN_HEALTH_FACTOR_AFTER_BORROW)
       THEN fail("HealthFactorTooLow")
       ELSE IF has_borrows(obl) /\ ~is_healthy(obl)
       THEN fail("PositionUnhealthy")
       ELSE out("Ok", WithTimestamps(rsv1, clk), obl1, vlt - withdraw_amount)

\* ---------------------------------------------- instructions/user/borrow.rs
\* The constraints of the Borrow accounts struct, in field order.
\* fault: the obligation's owner is not compared with the signer
BorrowAccounts_any_signer(mkt, rsv, obl, signer) ==
    IF mkt.emergency_mode THEN "EmergencyModeActive"
    ELSE IF ~rsv.config.borrows_enabled THEN "BorrowsDisabled"
    ELSE "Ok"

BorrowAccounts(mkt, rsv, obl, signer) ==
    IF mkt.emergency_mode THEN "EmergencyModeActive"
    ELSE IF ~rsv.config.borrows_enabled THEN "BorrowsDisabled"
    ELSE IF obl.owner # signer THEN "InvalidObligationOwner"
    ELSE "Ok"

borrow(mkt, rsv, reserve_key, obl, vlt, clk, signer, amount) ==
    LET out(e, r, o, v) == [err |-> e, reserve |-> r, obligation |-> o, vault |-> v]
        fail_after(e, r, o, v) ==
            TransactionFails(e, out("Ok", rsv, obl, vlt), out("Ok", r, o, v))
        fail(e) == fail_after(e, rsv, obl, vlt)
        remaining_capacity == remaining_borrow_capacity_usd(obl)
        rsv1 == [rsv EXCEPT !.liquidity.total_borrows =
                                rsv.liquidity.total_borrows + amount]
        current_borrow_index == rsv1.liquidity.cumulative_borrow_index
        borrow_index == find_borrow(obl, reserve_key)
        entry == obl.borrows[borrow_index]
        current_borrow_amount == (entry.borrowed_amount * current_borrow_index)
                                     \div entry.borrow_index_snapshot
        new_amount == current_borrow_amount + amount
        obl1 == IF borrow_index # NONE
                THEN [obl EXCEPT !.borrows[borrow_index] =
                         [entry EXCEPT !.borrowed_amount = new_amount,
                                       !.borrow_index_snapshot =
                                           current_borrow_index]]
                ELSE [obl EXCEPT !.borrows =
                         Append(obl.borrows,
                                ObligationLiquidity_new(reserve_key, amount,
                                                        current_borrow_index))]
        health_factor == calculate_health_factor(obl1)
    IN IF BorrowAccounts(mkt, rsv, obl, signer) # "Ok"
       THEN fail(BorrowAccounts(mkt, rsv, obl, signer))
       ELSE IF ~(amount > 0) THEN fail("AmountZero")
       ELSE IF ~(amount >= MIN_BORROW_AMOUNT) THEN fail("AmountTooSmall")
       ELSE IF is_stale(rsv, clk.slot, MAX_RESERVE_STALENESS_SLOTS)
       THEN fail("ReserveStale")
       ELSE IF ~has_deposits(obl) THEN fail("NoCollateral")
       ELSE IF rsv.config.borrow_limit > 0
               /\ ~(rsv.liquidity.total_borrows + amount
                        <= rsv.config.borrow_limit)
       THEN fail("BorrowLimitExceeded")
       ELSE IF ~(amount <= available_liquidity(rsv))
       THEN fail("InsufficientLiquidity")
       ELSE IF ~(remaining_capacity > 0)
       THEN fail("InsufficientBorrowingCapacity")
       ELSE IF ~(vlt >= amount) THEN fail("InsufficientVaultBalance")
       ELSE IF borrow_index = NONE
               /\ ~(Len(obl.borrows) < MAX_OBLIGATION_BORROWS)
       THEN fail_after("MaxBorrowsReached", rsv1, obl, vlt - amount)
       ELSE IF obl1.borrowed_value_usd > 0 /\ health_factor # NONE
               /\ ~(health_factor >= MIN_HEALTH_FACTOR_AFTER_BORROW)
       THEN fail_after("InsufficientHealthFactor", rsv1, obl1, vlt - amount)
       ELSE out("Ok", WithTimestamps(WithUpdatedRates(rsv1), clk), obl1,
                vlt - amount)

\* ----------------------------------------------- instructions/user/repay.rs
\* The payer may be any signer; only the obligation's market is constrained.
\* fault: the request is taken as it is, so 0 repays nothing
repay_repay_amount_as_requested(amount, current_borrow_amount) == amount

\* let repay_amount = if amount == 0 || amount >= current_borrow_amount
\*     { current_borrow_amount } else { amount }
repay_repay_amount(amount, current_borrow_amount) ==
    IF amount = 0 \/ amount >= current_borrow_amount
    THEN current_borrow_amount ELSE amount

repay(mkt, rsv, reserve_key, obl, vlt, clk, payer, amount) ==
    LET out(e, r, o, v) == [err |-> e, reserve |-> r, obligation |-> o, vault |-> v]
        fail_after(e, r, o, v) ==
            TransactionFails(e, out("Ok", rsv, obl, vlt), out("Ok", r, o, v))
        fail(e) == fail_after(e, rsv, obl, vlt)
        borrow_index == find_borrow(obl, reserve_key)
        current_borrow_index == rsv.liquidity.cumulative_borrow_index
        entry == obl.borrows[borrow_index]
        current_borrow_amount ==
            AmountWithInterest(entry.borrowed_amount, current_borrow_index,
                               entry.borrow_index_snapshot)
        repay_amount == repay_repay_amount(amount, current_borrow_amount)
        rsv1 == [rsv EXCEPT !.liquidity.total_borrows =
                                rsv.liquidity.total_borrows - repay_amount]
        remaining_borrow == current_borrow_amount - repay_amount
        obl1 == IF remaining_borrow = 0
                THEN [obl EXCEPT !.borrows = Remove(obl.borrows, borrow_index)]
                ELSE [obl EXCEPT !.borrows[borrow_index] =
                         [entry EXCEPT !.borrowed_amount = remaining_borrow,
                                       !.borrow_index_snapshot =
                                           current_borrow_index]]
    IN IF is_stale(rsv, clk.slot, MAX_RESERVE_STALENESS_SLOTS)
       THEN fail("ReserveStale")
       ELSE IF borrow_index = NONE THEN fail("NoBorrowFound")
       ELSE IF ~(current_borrow_amount > 0) THEN fail("NothingToRepay")
       ELSE IF repay_amount > rsv.liquidity.total_borrows
       THEN fail_after("MathOverflow", rsv, obl, vlt + repay_amount)
       ELSE out("Ok", WithTimestamps(WithUpdatedRates(rsv1), clk), obl1,
                vlt + repay_amount)

\* ------------------------------ instructions/permissionless/liquidate.rs
\* Outcome: err, both reserves, the obligation and both vault balances as the
\* handler leaves them, and the amounts of the LiquidationEvent.  The handler
\* has no staleness check and does not recompute rates.  The two reserves are
\* separate accounts (repay_key # collateral_key).
\* fault: the close factor is not applied
liquidate_actual_repay_uncapped(repay_amount, max_repay, current_borrow_amount) ==
    Min(repay_amount, current_borrow_amount)

\* let actual_repay = repay_amount.min(max_repay).min(current_borrow_amount)
liquidate_actual_repay(repay_amount, max_repay, current_borrow_amount) ==
    Min(Min(repay_amount, max_repay), current_borrow_amount)

\* fault: the protocol fee is not taken out of the liquidator's reward
liquidate_liquidator_reward_whole(collateral_to_seize, protocol_fee) ==
    collateral_to_seize

\* let liquidator_reward = collateral_to_seize.saturating_sub(protocol_fee)
liquidate_liquidator_reward(collateral_to_seize, protocol_fee) ==
    SaturatingSub(collateral_to_seize, protocol_fee)

\* fault: the liquidation bonus is left out of the collateral seized
liquidate_collateral_to_seize_no_bonus(actual_repay, bonus_bps) ==
    actual_repay

\* let collateral_to_seize = actual_repay * (10000 + bonus_bps) / 10000
liquidate_collateral_to_seize(actual_repay, bonus_bps) ==
    (actual_repay * (10000 + bonus_bps)) \div 10000

liquidate(mkt, repay_rsv, repay_key, coll_rsv, coll_key, obl, repay_vlt, coll_vlt, clk, repay_amount) ==
    LET borrow_index == find_borrow(obl, repay_key)
        deposit_index == find_deposit(obl, coll_key)
        borrow_entry == obl.borrows[borrow_index]
        current_borrow_index == repay_rsv.liquidity.cumulative_borrow_index
        current_borrow_amount ==
            AmountWithInterest(borrow_entry.borrowed_amount,
                               current_borrow_index,
                               borrow_entry.borrow_index_snapshot)
        max_repay == (current_borrow_amount * mkt.close_factor_bps) \div 10000
        actual_repay ==
            liquidate_actual_repay(repay_amount, max_repay,
                                   current_borrow_amount)
        bonus_bps == mkt.liquidation_bonus_bps
        collateral_to_seize ==
            liquidate_collateral_to_seize(actual_repay, bonus_bps)
        deposit_entry == obl.deposits[deposit_index]
        current_supply_index == coll_rsv.liquidity.cumulative_supply_index
        current_deposit_amount ==
            AmountWithInterest(deposit_entry.deposited_amount,
                               current_supply_index,
                               deposit_entry.supply_index_snapshot)
        liquidation_bonus_amount ==
            SaturatingSub(collateral_to_seize, actual_repay)
        protocol_fee ==
            (liquidation_bonus_amount * mkt.protocol_fee_bps) \div 10000
        liquidator_reward ==
            liquidate_liquidator_reward(collateral_to_seize, protocol_fee)
        \* balance of the collateral vault once the repayment has arrived: the
        \* vault is a PDA of its reserve, so one reserve passed twice brings
        \* one vault passed twice
        coll_vlt1 == IF repay_key = coll_key THEN repay_vlt + actual_repay
                     ELSE coll_vlt
        coll_vlt2 == coll_vlt1 - liquidator_reward
                         - (IF protocol_fee > 0 THEN protocol_fee ELSE 0)
        repay_rsv1 ==
            [repay_rsv EXCEPT !.liquidity.total_borrows =
                SaturatingSub(repay_rsv.liquidity.total_borrows, actual_repay)]
        coll_rsv1 ==
            [coll_rsv EXCEPT !.liquidity.total_deposits =
                SaturatingSub(coll_rsv.liquidity.total_deposits,
                              collateral_to_seize)]
        remaining_borrow == SaturatingSub(current_borrow_amount, actual_repay)
        obl1 == IF remaining_borrow = 0
                THEN [obl EXCEPT !.borrows = Remove(obl.borrows, borrow_index)]
                ELSE [obl EXCEPT !.borrows[borrow_index] =
                         [borrow_entry EXCEPT
                             !.borrowed_amount = remaining_borrow,
                             !.borrow_index_snapshot = current_borrow_index]]
        deposit_index2 == find_deposit(obl1, coll_key)
        remaining_deposit ==
            SaturatingSub(current_deposit_amount, collateral_to_seize)
        obl2 == IF remaining_deposit = 0
                THEN [obl1 EXCEPT !.deposits =
                         Remove(obl1.deposits, deposit_index2)]
                ELSE [obl1 EXCEPT !.deposits[deposit_index2] =
                         [obl1.deposits[deposit_index2] EXCEPT
                             !.deposited_amount = remaining_deposit,
                             !.supply_index_snapshot = current_supply_index]]
        before == [err |-> "Ok", repay_reserve |-> repay_rsv,
                   collateral_reserve |-> coll_rsv, obligation |-> obl,
                   repay_vault |-> repay_vlt, collateral_vault |-> coll_vlt,
                   actual_repay |-> 0, collateral_to_seize |-> 0,
                   protocol_fee |-> 0, liquidator_reward |-> 0]
        fail(e) == TransactionFails(e, before, before)
        \* the collateral vault once the transfers that could be paid are out
        coll_vlt_paid == IF coll_vlt1 >= liquidator_reward
                         THEN coll_vlt1 - liquidator_reward ELSE coll_vlt1
        transfers_made ==
            [before EXCEPT
                !.repay_vault = IF repay_key = coll_key THEN coll_vlt_paid
                                ELSE repay_vlt + actual_repay,
                !.collateral_vault = coll_vlt_paid]
        borrow_settled ==
            [before EXCEPT
                !.repay_reserve = repay_rsv1,
                !.collateral_reserve = coll_rsv1,
                !.obligation = obl1,
                !.repay_vault = IF repay_key = coll_key THEN coll_vlt2
                                ELSE repay_vlt + actual_repay,
                !.collateral_vault = coll_vlt2]
    IN IF ~is_liquidatable(obl) THEN fail("ObligationHealthy")
       ELSE IF borrow_index = NONE THEN fail("NoBorrowFound")
       ELSE IF deposit_index = NONE THEN fail("NoCollateralFound")
       ELSE IF ~(actual_repay > 0) THEN fail("RepayAmountTooSmall")
       ELSE IF ~(collateral_to_seize <= current_deposit_amount)
       THEN fail("InsufficientCollateral")
       ELSE IF coll_vlt1 < liquidator_reward
               \/ (protocol_fee > 0
                   /\ coll_vlt1 - liquidator_reward < protocol_fee)
       THEN TransactionFails("TokenInsufficientFunds", before, transfers_made)
       ELSE IF deposit_index2 = NONE
       THEN TransactionFails("NoCollateralFound", before, borrow_settled)
       ELSE [err |-> "Ok",
             repay_reserve |-> WithTimestamps(repay_rsv1, clk),
             collateral_reserve |-> WithTimestamps(coll_rsv1, clk),
             obligation |-> obl2,
             repay_vault |-> IF repay_key = coll_key THEN coll_vlt2
                             ELSE repay_vlt + actual_repay,
             collateral_vault |-> coll_vlt2,
             actual_repay |-> actual_repay,
             collateral_to_seize |-> collateral_to_seize,
             protocol_fee |-> protocol_fee,
             liquidator_reward |-> liquidator_reward]

\* ---------------------------------------- instructions/admin/collect_fees.rs
collect_fees(rsv, vlt, clk, is_authority, amount) ==
    LET available_fees == rsv.liquidity.accumulated_protocol_fees
        collect_amount == IF amount = 0 \/ amount > available_fees
                          THEN available_fees ELSE amount
        rsv1 == [rsv EXCEPT !.liquidity.accumulated_protocol_fees =
                                available_fees - collect_amount]
        fail(e) == [err |-> e, reserve |-> rsv, vault |-> vlt]
    IN IF ~is_authority THEN fail("ConstraintHasOne")
       ELSE IF ~(available_fees > 0) THEN fail("NoFeesToCollect")
       ELSE IF vlt < collect_amount THEN fail("TokenInsufficientFunds")
       ELSE [err |-> "Ok", reserve |-> WithTimestamps(rsv1, clk),
             vault |-> vlt - collect_amount]

\* ------------------------------- instructions/admin/update_reserve_config.rs
\* params: every field an Option.
NoUpdate ==
    [ltv_bps |-> None, liquidation_threshold_bps |-> None,
     deposit_limit |-> None, borrow_limit |-> None,
     deposits_enabled |-> None, borrows_enabled |-> None,
     optimal_utilization_bps |-> None, base_rate_bps |-> None,
     slope1_bps |-> None, slope2_bps |-> None, reserve_factor_bps |-> None]

update_reserve_config(rsv, is_authority, params) ==
    LET old == rsv.config
        ltv == UnwrapOr(params.ltv_bps, old.ltv_bps)
        liq_threshold == UnwrapOr(params.liquidation_threshold_bps,
                                  old.liquidation_threshold_bps)
        oldir == old.interest_rate_config
        new_ir_config ==
            [optimal_utilization_bps |->
                 UnwrapOr(params.optimal_utilization_bps,
                          oldir.optimal_utilization_bps),
             base_rate_bps |-> UnwrapOr(params.base_rate_bps, oldir.base_rate_bps),
             slope1_bps |-> UnwrapOr(params.slope1_bps, oldir.slope1_bps),
             slope2_bps |-> UnwrapOr(params.slope2_bps, oldir.slope2_bps),
             reserve_factor_bps |-> UnwrapOr(params.reserve_factor_bps,
                                             oldir.reserve_factor_bps)]
        new_config ==
            [ltv_bps |-> ltv,
             liquidation_threshold_bps |-> liq_threshold,
             deposit_limit |-> UnwrapOr(params.deposit_limit, old.deposit_limit),
             borrow_limit |-> UnwrapOr(params.borrow_limit, old.borrow_limit),
             deposits_enabled |-> UnwrapOr(params.deposits_enabled,
                                           old.deposits_enabled),
             borrows_enabled |-> UnwrapOr(params.borrows_enabled,
                                          old.borrows_enabled),
             interest_rate_config |-> new_ir_config]
        fail(e) == [err |-> e, reserve |-> rsv]
    IN IF ~is_authority THEN fail("ConstraintHasOne")
       ELSE IF ~(ltv < liq_threshold) THEN fail("InvalidLtvThreshold")
       ELSE IF ~(liq_threshold <= 10000) THEN fail("InvalidLiquidationThreshold")
       ELSE IF params.optimal_utilization_bps # None
               /\ ~(new_ir_config.optimal_utilization_bps <= 10000)
       THEN fail("InvalidOptimalUtilization")
       ELSE IF params.reserve_factor_bps # None
               /\ ~(new_ir_config.reserve_factor_bps <= 10000)
       THEN fail("InvalidReserveFactor")
       ELSE IF ~validate_config(new_config) THEN fail("InvalidReserveConfig")
       ELSE [err |-> "Ok", reserve |-> [rsv EXCEPT !.config = new_config]]

\* ==================================================================== state
VARIABLES
    clock,             \* Clock sysvar: [slot, unix_timestamp]
    lending_market,    \* the LendingMarket account
    reserves,          \* reserve key -> Reserve account
    token_vault,       \* reserve key -> balance of the reserve's token vault
    obligations,       \* user -> that user's Obligation account
    last,              \* the last user or admin instruction that succeeded
    accrued_interest,  \* reserve key -> interest refreshes added to total_borrows
    accrued_fees,      \* reserve key -> what refreshes added to
                       \* accumulated_protocol_fees
    budget,            \* what the exploration may still do: clock advances,
                       \* successful user or admin instructions, and
                       \* successful admin instructions among them
    rates              \* a point of an interest rate curve: the configuration,
                       \* a utilization and the two rates computed at it

vars == <<clock, lending_market, reserves, token_vault, obligations, last,
          accrued_interest, accrued_fees, budget, rates>>

\* the point of the rate curve of config at a utilization: the two rates as
\* the "update interest rates" block of the handlers computes them
RatesAt(config, utilization_bps) ==
    LET borrow_rate == calculate_borrow_rate(config, utilization_bps)
    IN [config |-> config,
        utilization_bps |-> utilization_bps,
        borrow_rate_bps |-> borrow_rate,
        supply_rate_bps |->
            calculate_supply_rate(config, borrow_rate, utilization_bps)]

\* ------------------------------------------------------------------ inputs
Authority == "authority"
AdminSigners == {Authority, "u1"}
\* <<signer of the transaction, owner of the obligation passed>>
SignerPairs == {<<"u1", "u1">>, <<"u2", "u2">>, <<"u2", "u1">>}
DepositAmounts == {999, 1000}
WithdrawAmounts == {0, 500}
BorrowAmounts == {800, 1000}
RepayAmounts == {0, 500}
LiquidateAmounts == {600}
CollectAmounts == {0}
\* how far the clock moves between two instructions
ClockSteps == {[slots |-> 1500, seconds |-> 1],
               [slots |-> 1501, seconds |-> 1]}
ConfigUpdates == {[NoUpdate EXCEPT !.base_rate_bps = Some(400)],
                  [NoUpdate EXCEPT !.ltv_bps = Some(9000)]}

NoMarketParams ==
    [close_factor_bps |-> None, liquidation_bonus_bps |-> None,
     protocol_fee_bps |-> None]

ReserveParams ==
    [ltv_bps |-> 8000, liquidation_threshold_bps |-> 8500,
     deposit_limit |-> None, borrow_limit |-> None,
     interest_rate_config |-> None]

\* ------------------------------------------------------- the last instruction
Done(op, u, r, amount) ==
    [op |-> op, user |-> u, reserve |-> r, collateral |-> "-",
     amount |-> amount, actual_repay |-> 0, collateral_to_seize |-> 0,
     protocol_fee |-> 0, liquidator_reward |-> 0]

\* -------------------------------------------------------------------- Init
\* The state after initialize_lending_market, one initialize_reserve per
\* reserve key and one initialize_obligation per user, all in slot 0.
Setup(reserve_keys, b) ==
    /\ clock = [slot |-> 0, unix_timestamp |-> 0]
    /\ lending_market =
         [initialize_lending_market(NoMarketParams).lending_market
             EXCEPT !.reserves_count = Cardinality(reserve_keys)]
    /\ reserves =
         [r \in reserve_keys |->
             initialize_reserve(
                 initialize_lending_market(NoMarketParams).lending_market,
                 ReserveParams, [slot |-> 0, unix_timestamp |-> 0]).reserve]
    /\ token_vault = [r \in reserve_keys |-> 0]
    /\ obligations = [u \in Users |-> initialize_obligation(u)]
    /\ last = Done("init", "-", "-", 0)
    /\ accrued_interest = [r \in reserve_keys |-> 0]
    /\ accrued_fees = [r \in reserve_keys |-> 0]
    /\ budget = b

\* a market of two reserves
Init ==
    /\ Setup(Reserves,
             [ticks |-> MaxTicks, ops |-> MaxOps, admin_ops |-> MaxAdminOps])
    /\ rates = RatesAt(DefaultInterestRateConfig, 0)

\* a market of one reserve, explored one instruction deeper
InitSingle ==
    /\ Setup({"r1"},
             [ticks |-> MaxTicks, ops |-> MaxOpsSingle,
              admin_ops |-> MaxAdminOps])
    /\ rates = RatesAt(DefaultInterestRateConfig, 0)

\* ----------------------------------------------------------------- actions
\* The runtime moves the clock between instructions.
Tick ==
    /\ budget.ticks > 0
    /\ \E step \in ClockSteps :
         clock' = [slot |-> clock.slot + step.slots,
                   unix_timestamp |-> clock.unix_timestamp + step.seconds]
    /\ budget' = [budget EXCEPT !.ticks = @ - 1]
    /\ UNCHANGED <<lending_market, reserves, token_vault, obligations, last,
                   accrued_interest, accrued_fees, rates>>

\* An instruction that returned Err: the runtime discards every account write.
Abort == UNCHANGED vars

Deposit ==
    \E sp \in SignerPairs, r \in DOMAIN reserves, amount \in DepositAmounts :
        LET out == deposit(lending_market, reserves[r], r, obligations[sp[2]],
                           token_vault[r], clock, sp[1], amount)
        IN IF out.err = "Ok"
           THEN /\ budget.ops > 0
                /\ out.reserve.liquidity.total_deposits <= MaxTotalDeposits
                /\ reserves' = [reserves EXCEPT ![r] = out.reserve]
                /\ obligations' = [obligations EXCEPT ![sp[2]] = out.obligation]
                /\ token_vault' = [token_vault EXCEPT ![r] = out.vault]
                /\ last' = Done("deposit", sp[2], r, amount)
                /\ budget' = [budget EXCEPT !.ops = @ - 1]
                /\ UNCHANGED <<clock, lending_market, accrued_interest,
                               accrued_fees, rates>>
           ELSE Abort

Withdraw ==
    \E sp \in SignerPairs, r \in DOMAIN reserves, amount \in WithdrawAmounts :
        LET out == withdraw(lending_market, reserves[r], r, obligations[sp[2]],
                            token_vault[r], clock, sp[1], amount)
        IN IF out.err = "Ok"
           THEN /\ budget.ops > 0
                /\ reserves' = [reserves EXCEPT ![r] = out.reserve]
                /\ obligations' = [obligations EXCEPT ![sp[2]] = out.obligation]
                /\ token_vault' = [token_vault EXCEPT ![r] = out.vault]
                /\ last' = Done("withdraw", sp[2], r, amount)
                /\ budget' = [budget EXCEPT !.ops = @ - 1]
                /\ UNCHANGED <<clock, lending_market, accrued_interest,
                               accrued_fees, rates>>
           ELSE Abort

Borrow ==
    \E sp \in SignerPairs, r \in DOMAIN reserves, amount \in BorrowAmounts :
        LET out == borrow(lending_market, reserves[r], r, obligations[sp[2]],
                          token_vault[r], clock, sp[1], amount)
        IN IF out.err = "Ok"
           THEN /\ budget.ops > 0
                /\ reserves' = [reserves EXCEPT ![r] = out.reserve]
                /\ obligations' = [obligations EXCEPT ![sp[2]] = out.obligation]
                /\ token_vault' = [token_vault EXCEPT ![r] = out.vault]
                /\ last' = Done("borrow", sp[2], r, amount)
                /\ budget' = [budget EXCEPT !.ops = @ - 1]
                /\ UNCHANGED <<clock, lending_market, accrued_interest,
                               accrued_fees, rates>>
           ELSE Abort

\* The payer need not be the owner of the obligation.
Repay ==
    \E sp \in SignerPairs, r \in DOMAIN reserves, amount \in RepayAmounts :
        LET out == repay(lending_market, reserves[r], r, obligations[sp[2]],
                         token_vault[r], clock, sp[1], amount)
        IN IF out.err = "Ok"
           THEN /\ budget.ops > 0
                /\ reserves' = [reserves EXCEPT ![r] = out.reserve]
                /\ obligations' = [obligations EXCEPT ![sp[2]] = out.obligation]
                /\ token_vault' = [token_vault EXCEPT ![r] = out.vault]
                /\ last' = Done("repay", sp[2], r, amount)
                /\ budget' = [budget EXCEPT !.ops = @ - 1]
                /\ UNCHANGED <<clock, lending_market, accrued_interest,
                               accrued_fees, rates>>
           ELSE Abort

\* Nothing in the Accounts struct keeps repay_reserve and collateral_reserve
\* apart.  When both are one account, a framework build that refuses an
\* account passed twice as mutable rejects the instruction; a build that does
\* not writes the two deserialized copies back in field order, so that the
\* copy held by collateral_reserve is the one that stays.
Liquidate ==
    \E u \in Users, rr \in DOMAIN reserves, cr \in DOMAIN reserves,
       repay_amount \in LiquidateAmounts, duplicate_refused \in BOOLEAN :
        LET out == liquidate(lending_market, reserves[rr], rr, reserves[cr],
                             cr, obligations[u], token_vault[rr],
                             token_vault[cr], clock, repay_amount)
        IN IF rr # cr /\ duplicate_refused THEN FALSE
           ELSE IF out.err = "Ok" /\ ~duplicate_refused
           THEN /\ budget.ops > 0
                /\ reserves' = [reserves EXCEPT
                                   ![rr] = out.repay_reserve,
                                   ![cr] = out.collateral_reserve]
                /\ obligations' = [obligations EXCEPT ![u] = out.obligation]
                /\ token_vault' = [token_vault EXCEPT
                                      ![rr] = out.repay_vault,
                                      ![cr] = out.collateral_vault]
                /\ last' = [Done("liquidate", u, rr, repay_amount) EXCEPT
                               !.collateral = cr,
                               !.actual_repay = out.actual_repay,
                               !.collateral_to_seize = out.collateral_to_seize,
                               !.protocol_fee = out.protocol_fee,
                               !.liquidator_reward = out.liquidator_reward]
                /\ budget' = [budget EXCEPT !.ops = @ - 1]
                /\ UNCHANGED <<clock, lending_market, accrued_interest,
                               accrued_fees, rates>>
           ELSE Abort

RefreshReserve ==
    \E r \in DOMAIN reserves :
        LET out == refresh_reserve(reserves[r], clock)
        IN IF out.err = "Ok"
           THEN /\ reserves' = [reserves EXCEPT ![r] = out.reserve]
                /\ accrued_interest' =
                       [accrued_interest EXCEPT ![r] = @ + out.interest_earned]
                /\ accrued_fees' =
                       [accrued_fees EXCEPT
                           ![r] = @ + out.reserve.liquidity
                                          .accumulated_protocol_fees
                                    - reserves[r].liquidity
                                          .accumulated_protocol_fees]
                /\ UNCHANGED <<clock, lending_market, token_vault,
                               obligations, last, budget, rates>>
           ELSE Abort

RefreshObligation ==
    \E u \in Users :
        /\ obligations' = [obligations EXCEPT ![u] = refresh_obligation(@)]
        /\ UNCHANGED <<clock, lending_market, reserves, token_vault, last,
                       accrued_interest, accrued_fees, budget, rates>>

SetEmergencyMode ==
    \E signer \in AdminSigners, emergency \in BOOLEAN :
        LET out == set_emergency_mode(lending_market, signer = Authority,
                                      emergency)
        IN IF out.err = "Ok"
           THEN /\ budget.ops > 0
                /\ budget.admin_ops > 0
                /\ lending_market' = out.lending_market
                /\ last' = Done("set_emergency_mode", "-", "-",
                                IF emergency THEN 1 ELSE 0)
                /\ budget' = [budget EXCEPT !.ops = @ - 1,
                                            !.admin_ops = @ - 1]
                /\ UNCHANGED <<clock, reserves, token_vault, obligations,
                               accrued_interest, accrued_fees, rates>>
           ELSE Abort

CollectFees ==
    \E signer \in AdminSigners, r \in DOMAIN reserves, amount \in CollectAmounts :
        LET out == collect_fees(reserves[r], token_vault[r], clock,
                                signer = Authority, amount)
        IN IF out.err = "Ok"
           THEN /\ budget.ops > 0
                /\ budget.admin_ops > 0
                /\ reserves' = [reserves EXCEPT ![r] = out.reserve]
                /\ token_vault' = [token_vault EXCEPT ![r] = out.vault]
                /\ last' = Done("collect_fees", "-", r, amount)
                /\ budget' = [budget EXCEPT !.ops = @ - 1,
                                            !.admin_ops = @ - 1]
                /\ UNCHANGED <<clock, lending_market, obligations,
                               accrued_interest, accrued_fees, rates>>
           ELSE Abort

UpdateReserveConfig ==
    \E signer \in AdminSigners, r \in DOMAIN reserves, params \in ConfigUpdates :
        LET out == update_reserve_config(reserves[r], signer = Authority, params)
        IN IF out.err = "Ok"
           THEN /\ budget.ops > 0
                /\ budget.admin_ops > 0
                /\ reserves' = [reserves EXCEPT ![r] = out.reserve]
                /\ last' = Done("update_reserve_config", "-", r, 0)
                /\ budget' = [budget EXCEPT !.ops = @ - 1,
                                            !.admin_ops = @ - 1]
                /\ UNCHANGED <<clock, lending_market, token_vault,
                               obligations, accrued_interest, accrued_fees,
                               rates>>
           ELSE Abort

Next ==
    \/ Tick
    \/ Deposit
    \/ Withdraw
    \/ Borrow
    \/ Repay
    \/ Liquidate
    \/ RefreshReserve
    \/ RefreshObligation
    \/ SetEmergencyMode
    \/ CollectFees
    \/ UpdateReserveConfig

Spec == Init /\ [][Next]_vars

SpecSingle == InitSingle /\ [][Next]_vars

\* --------------------------------------------------- the interest rate curve
\* The two rate functions are pure: they are examined on their own, one
\* configuration per behaviour, the utilization rising one basis point a step
\* from 0 to MaxUtilization.
RateConfigs ==
    [optimal_utilization_bps : {0, 8000, 10000},
     base_rate_bps : {200},
     slope1_bps : {7, 1000},
     slope2_bps : {3, 10000},
     reserve_factor_bps : {1000, 10000}]

InitRates ==
    /\ Setup(Reserves, [ticks |-> 0, ops |-> 0, admin_ops |-> 0])
    /\ \E config \in RateConfigs : rates = RatesAt(config, 0)

RaiseUtilization ==
    /\ rates.utilization_bps < MaxUtilization
    /\ rates' = RatesAt(rates.config, rates.utilization_bps + 1)
    /\ UNCHANGED <<clock, lending_market, reserves, token_vault, obligations,
                   last, accrued_interest, accrued_fees, budget>>

NextRates == RaiseUtilization

SpecRates == InitRates /\ [][NextRates]_vars

\* ================================================================== claims
\* The position of an obligation as it stands: its entries valued afresh.
HealthAsItStands(obl) == calculate_health_factor(refresh_obligation(obl))

\* C1 (solvency law): after a successful borrow or withdraw on an obligation
\* that still has a borrow entry, the health factor of the position as it
\* stands after the instruction is strictly greater than 10 000.
C1_SolvencyLaw ==
    (last.op \in {"borrow", "withdraw"} /\ has_borrows(obligations[last.user]))
        => /\ HealthAsItStands(obligations[last.user]) # NONE
           /\ HealthAsItStands(obligations[last.user]) > 10000

\* C2 (borrow capacity): with allowed_borrow_value_usd A and
\* borrowed_value_usd B, a borrow whose value exceeds A - B does not succeed.
C2_BorrowWithinCapacity ==
    \A sp \in SignerPairs, r \in DOMAIN reserves, amount \in BorrowAmounts :
        borrow(lending_market, reserves[r], r, obligations[sp[2]],
               token_vault[r], clock, sp[1], amount).err = "Ok"
            => PlaceholderUsd(amount)
                   <= remaining_borrow_capacity_usd(obligations[sp[2]])

\* every liquidate call the exploration can make in the current state
LiquidateCalls ==
    {[user |-> u, repay |-> rr, collateral |-> cr, repay_amount |-> a] :
        u \in Users, rr \in DOMAIN reserves, cr \in DOMAIN reserves,
        a \in LiquidateAmounts}

LiquidateOutcome(c) ==
    liquidate(lending_market, reserves[c.repay], c.repay,
              reserves[c.collateral], c.collateral, obligations[c.user],
              token_vault[c.repay], token_vault[c.collateral], clock,
              c.repay_amount)

\* C3 (liquidation preconditions): liquidate succeeds only when the
\* obligation's health factor is at most 10 000 and the obligation has a
\* borrow entry in repay_reserve and a deposit entry in collateral_reserve;
\* on a healthy obligation (health above 10 000, or no debt) it fails with
\* ObligationHealthy and leaves reserves, obligation and vaults as they were.
C3_LiquidatePreconditions ==
    \A c \in LiquidateCalls :
        LET obl == obligations[c.user]
            health == calculate_health_factor(obl)
            out == LiquidateOutcome(c)
        IN /\ out.err = "Ok"
                => /\ health # NONE
                   /\ health <= 10000
                   /\ find_borrow(obl, c.repay) # NONE
                   /\ find_deposit(obl, c.collateral) # NONE
           /\ (health = NONE \/ health > 10000)
                => /\ out.err = "ObligationHealthy"
                   /\ out.repay_reserve = reserves[c.repay]
                   /\ out.collateral_reserve = reserves[c.collateral]
                   /\ out.obligation = obl
                   /\ out.repay_vault = token_vault[c.repay]
                   /\ out.collateral_vault = token_vault[c.collateral]

\* a liquidation has gone through, and another obligation is healthy
C3_Witness ==
    /\ last.op = "liquidate"
    /\ \E u \in Users \ {last.user} :
           /\ has_deposits(obligations[u])
           /\ calculate_health_factor(obligations[u]) = NONE

\* C4 (close-factor bound): in every successful liquidate call the amount
\* repaid is positive and at most the borrow entry's amount with interest
\* times close_factor_bps / 10 000, floored.
C4_CloseFactorBound ==
    \A c \in LiquidateCalls :
        LET obl == obligations[c.user]
            out == LiquidateOutcome(c)
            entry == obl.borrows[find_borrow(obl, c.repay)]
            current_borrow ==
                AmountWithInterest(
                    entry.borrowed_amount,
                    reserves[c.repay].liquidity.cumulative_borrow_index,
                    entry.borrow_index_snapshot)
        IN out.err = "Ok"
               => /\ out.actual_repay > 0
                  /\ out.actual_repay
                         <= (current_borrow * lending_market.close_factor_bps)
                                \div 10000

\* a liquidation in which the close factor cut the amount asked for
C4_Witness ==
    /\ last.op = "liquidate"
    /\ last.actual_repay > 0
    /\ last.actual_repay < last.amount

\* C5 (bonus and fee split): in every successful liquidation the collateral
\* seized is at least the amount repaid, protocol fee and liquidator reward
\* add up to the collateral seized, the protocol fee is the bonus times
\* protocol_fee_bps / 10 000, floored, and the collateral vault pays out
\* exactly the collateral seized.
C5_BonusAndFeeSplit ==
    \A c \in LiquidateCalls :
        LET out == LiquidateOutcome(c)
            \* what the collateral vault holds when the seizure starts
            vault_before == IF c.repay = c.collateral
                            THEN token_vault[c.collateral] + out.actual_repay
                            ELSE token_vault[c.collateral]
        IN out.err = "Ok"
               => /\ out.collateral_to_seize >= out.actual_repay
                  /\ out.protocol_fee + out.liquidator_reward
                         = out.collateral_to_seize
                  /\ out.protocol_fee
                         = ((out.collateral_to_seize - out.actual_repay)
                                * lending_market.protocol_fee_bps) \div 10000
                  /\ out.collateral_vault
                         = vault_before - out.collateral_to_seize

\* a liquidation that paid a protocol fee and a liquidator reward
C5_Witness ==
    /\ last.op = "liquidate"
    /\ last.protocol_fee > 0
    /\ last.liquidator_reward > last.actual_repay

\* C6 (index monotonicity): for every reserve, whatever instruction runs,
\* cumulative_borrow_index and cumulative_supply_index never decrease and are
\* never below INDEX_ONE.
C6_IndexMonotonicity ==
    /\ [](\A r \in DOMAIN reserves :
            /\ reserves[r].liquidity.cumulative_borrow_index >= INDEX_ONE
            /\ reserves[r].liquidity.cumulative_supply_index >= INDEX_ONE)
    /\ [][\A r \in DOMAIN reserves :
            /\ reserves'[r].liquidity.cumulative_borrow_index
                   >= reserves[r].liquidity.cumulative_borrow_index
            /\ reserves'[r].liquidity.cumulative_supply_index
                   >= reserves[r].liquidity.cumulative_supply_index]_vars

\* both indexes of a reserve have grown and an instruction has run on the
\* reserve since
C6_Witness ==
    \E r \in DOMAIN reserves :
        /\ reserves[r].liquidity.cumulative_borrow_index > INDEX_ONE
        /\ reserves[r].liquidity.cumulative_supply_index > INDEX_ONE
        /\ last.reserve = r
        /\ last.op \in {"deposit", "withdraw", "borrow", "repay",
                        "collect_fees", "update_reserve_config"}
        /\ reserves[r].last_update_slot = clock.slot

\* C7 (idempotent refresh): when the current slot is the reserve's
\* last_update_slot, refresh_reserve succeeds and changes nothing, and a
\* second refresh_reserve in the slot of a first one leaves the reserve as
\* the first one left it.
C7_IdempotentRefresh ==
    \A r \in DOMAIN reserves :
        LET once == refresh_reserve(reserves[r], clock)
            twice == refresh_reserve(once.reserve, clock)
        IN /\ reserves[r].last_update_slot = clock.slot
                => /\ once.err = "Ok"
                   /\ once.reserve = reserves[r]
                   /\ once.interest_earned = 0
           /\ once.err = "Ok"
                => /\ twice.err = "Ok"
                   /\ twice.reserve = once.reserve
                   /\ twice.interest_earned = 0

\* a refresh has accrued interest on a reserve in the current slot, and the
\* reserve's totals have moved since
C7_Witness ==
    \E r \in DOMAIN reserves :
        /\ accrued_interest[r] > 0
        /\ clock.slot > 0
        /\ reserves[r].last_update_slot = clock.slot
        /\ last.reserve = r
        /\ last.op \in {"deposit", "withdraw"}

UserOutcome(op, r, sp, amount) ==
    CASE op = "deposit" ->
            deposit(lending_market, reserves[r], r, obligations[sp[2]],
                    token_vault[r], clock, sp[1], amount)
      [] op = "withdraw" ->
            withdraw(lending_market, reserves[r], r, obligations[sp[2]],
                     token_vault[r], clock, sp[1], amount)
      [] op = "borrow" ->
            borrow(lending_market, reserves[r], r, obligations[sp[2]],
                   token_vault[r], clock, sp[1], amount)
      [] op = "repay" ->
            repay(lending_market, reserves[r], r, obligations[sp[2]],
                  token_vault[r], clock, sp[1], amount)

\* the same instruction right after a refresh_reserve of its reserve
UserOutcomeRefreshed(op, r, sp, amount) ==
    LET fresh == refresh_reserve(reserves[r], clock).reserve
    IN CASE op = "deposit" ->
               deposit(lending_market, fresh, r, obligations[sp[2]],
                       token_vault[r], clock, sp[1], amount)
         [] op = "withdraw" ->
               withdraw(lending_market, fresh, r, obligations[sp[2]],
                        token_vault[r], clock, sp[1], amount)
         [] op = "borrow" ->
               borrow(lending_market, fresh, r, obligations[sp[2]],
                      token_vault[r], clock, sp[1], amount)
         [] op = "repay" ->
               repay(lending_market, fresh, r, obligations[sp[2]],
                     token_vault[r], clock, sp[1], amount)

UserAmounts(op) ==
    CASE op = "deposit" -> DepositAmounts
      [] op = "withdraw" -> WithdrawAmounts
      [] op = "borrow" -> BorrowAmounts
      [] op = "repay" -> RepayAmounts

UserOps == {"deposit", "withdraw", "borrow", "repay"}

SlotsSinceUpdate(r) == clock.slot - reserves[r].last_update_slot

PassesEarlierChecks(op, r, sp, amount) ==
    CASE op = "deposit" ->
            /\ DepositAccounts(lending_market, reserves[r],
                               obligations[sp[2]], sp[1]) = "Ok"
            /\ amount >= MIN_DEPOSIT_AMOUNT
      [] op = "withdraw" -> obligations[sp[2]].owner = sp[1]
      [] op = "borrow" ->
            /\ BorrowAccounts(lending_market, reserves[r],
                              obligations[sp[2]], sp[1]) = "Ok"
            /\ amount >= MIN_BORROW_AMOUNT
      [] op = "repay" -> TRUE

C10_BorrowsWithinDeposits ==
    \A r \in DOMAIN reserves :
        reserves[r].liquidity.total_borrows
            <= reserves[r].liquidity.total_deposits + accrued_interest[r]

\* amounts of the deposit-then-withdraw round trip
RoundTripAmounts == {1000, 1200}

\* deposit(x) by the owner of an obligation, then withdraw(x) in the same slot
\* on the accounts as the deposit left them
DepositThenWithdraw(u, r, x) ==
    LET d == deposit(lending_market, reserves[r], r, obligations[u],
                     token_vault[r], clock, u, x)
    IN [deposit |-> d,
        withdraw |-> withdraw(lending_market, d.reserve, r, d.obligation,
                              d.vault, clock, u, x)]

\* the round trip restores total_deposits and the vault and leaves no entry
RoundTripRestores(u, r, x) ==
    LET w == DepositThenWithdraw(u, r, x).withdraw
    IN /\ w.err = "Ok"
       /\ w.reserve.liquidity.total_deposits
              = reserves[r].liquidity.total_deposits
       /\ w.vault = token_vault[r]
       /\ find_deposit(w.obligation, r) = NONE

HealthValues == {0, 1, 850, 1000, 9999, 10000, 10001, 20000, 20001, 20002}

\* an obligation with the given cached borrowed and unhealthy-borrow values
ObligationWithValues(borrowed, unhealthy) ==
    [initialize_obligation("u1") EXCEPT
        !.borrowed_value_usd = borrowed,
        !.unhealthy_borrow_value_usd = unhealthy]

\* the obligations the law is checked on: those of the current state and
\* those with cached values drawn from HealthValues
HealthObligations ==
    {obligations[u] : u \in Users}
        \cup {ObligationWithValues(b, t) : b \in HealthValues,
                                           t \in HealthValues}

\* C12 as stated (health-factor law): for every obligation state,
\* is_liquidatable() holds iff borrowed_value_usd >= unhealthy_borrow_value_usd,
\* and calculate_health_factor() returns None iff borrowed_value_usd = 0.
C12_HealthFactorLaw ==
    \A obl \in HealthObligations :
        /\ is_liquidatable(obl)
               <=> obl.borrowed_value_usd >= obl.unhealthy_borrow_value_usd
        /\ calculate_health_factor(obl) = NONE <=> obl.borrowed_value_usd = 0

\* C12 as amended (health-factor law): is_liquidatable() holds iff the health
\* factor is Some(h) with h <= 10 000, h being unhealthy_borrow_value_usd x
\* 10 000 / borrowed_value_usd floored; so an obligation with debt and
\* borrowed_value_usd >= unhealthy_borrow_value_usd is liquidatable, an
\* obligation without debt never is, and a liquidatable obligation has
\* unhealthy_borrow_value_usd x 10 000 < 10 001 x borrowed_value_usd;
\* calculate_health_factor() returns None iff borrowed_value_usd = 0.
C12_HealthFactorLawWithDebt ==
    \A obl \in HealthObligations :
        LET health == calculate_health_factor(obl)
        IN /\ is_liquidatable(obl) <=> (health # NONE /\ health <= 10000)
           /\ health # NONE
                => health = (obl.unhealthy_borrow_value_usd * 10000)
                                \div obl.borrowed_value_usd
           /\ (/\ obl.borrowed_value_usd > 0
               /\ obl.borrowed_value_usd >= obl.unhealthy_borrow_value_usd)
                  => is_liquidatable(obl)
           /\ is_liquidatable(obl)
                  => /\ obl.borrowed_value_usd > 0
                     /\ obl.unhealthy_borrow_value_usd * 10000
                            < 10001 * obl.borrowed_value_usd
           /\ health = NONE <=> obl.borrowed_value_usd = 0

\* a liquidation has gone through on an obligation that is still liquidatable,
\* while the other obligation has no debt and is not
C12_Witness ==
    /\ last.op = "liquidate"
    /\ is_liquidatable(obligations[last.user])
    /\ obligations[last.user].borrowed_value_usd
           >= obligations[last.user].unhealthy_borrow_value_usd
    /\ \E u \in Users :
           /\ obligations[u].borrowed_value_usd = 0
           /\ ~is_liquidatable(obligations[u])

\* the clocks a refresh_reserve is tried under: the current one, and the
\* current one advanced by a slot with no, one and more than a year's seconds
RefreshClocks ==
    {clock}
        \cup {[slot |-> clock.slot + 1,
               unix_timestamp |-> clock.unix_timestamp + dt] :
                  dt \in {0, 1, SECONDS_PER_YEAR + 1}}

\* C13 (fee split): in every refresh_reserve that adds interest I to
\* total_borrows, accumulated_protocol_fees grows by exactly
\* I x reserve_factor_bps / 10 000 floored; when no interest accrues
\* (total_borrows = 0, no time elapsed, or same slot) total_borrows and
\* accumulated_protocol_fees are unchanged.
C13_FeeSplit ==
    \A r \in DOMAIN reserves, clk \in RefreshClocks :
        LET liq == reserves[r].liquidity
            out == refresh_reserve(reserves[r], clk)
            interest == out.reserve.liquidity.total_borrows - liq.total_borrows
            fees == out.reserve.liquidity.accumulated_protocol_fees
                        - liq.accumulated_protocol_fees
        IN /\ out.err = "Ok"
                => /\ interest = out.interest_earned
                   /\ interest >= 0
                   /\ fees = (interest
                                * reserves[r].config.interest_rate_config
                                      .reserve_factor_bps) \div 10000
           /\ (\/ liq.total_borrows = 0
               \/ clk.unix_timestamp = reserves[r].last_update_timestamp
               \/ clk.slot = reserves[r].last_update_slot)
                  => /\ out.err = "Ok"
                     /\ interest = 0
                     /\ fees = 0

\* a refresh has added interest to a reserve's total_borrows and the protocol
\* has got its share of it
C13_Witness ==
    \E r \in DOMAIN reserves :
        /\ accrued_interest[r] > 0
        /\ reserves[r].last_update_slot = clock.slot
        /\ reserves[r].liquidity.accumulated_protocol_fees > 0
        /\ reserves[r].liquidity.accumulated_protocol_fees
               = (accrued_interest[r] * DEFAULT_RESERVE_FACTOR_BPS) \div 10000
        /\ reserves[r].liquidity.accumulated_protocol_fees
               < accrued_interest[r]

\* C14 (accrual upper bound): for a refresh_reserve dt seconds after the last
\* update at the stored borrow rate r (bps),
\* new_borrow_index <= old_borrow_index x (1 + r x min(dt, SECONDS_PER_YEAR)
\* / (10 000 x SECONDS_PER_YEAR)); a gap longer than a year accrues no more
\* than one year of interest.
C14_AccrualUpperBound ==
    \A r \in DOMAIN reserves, clk \in RefreshClocks :
        LET liq == reserves[r].liquidity
            out == refresh_reserve(reserves[r], clk)
            dt == clk.unix_timestamp - reserves[r].last_update_timestamp
            year == 10000 * SECONDS_PER_YEAR
        IN out.err = "Ok"
               => /\ out.reserve.liquidity.cumulative_borrow_index * year
                         <= liq.cumulative_borrow_index
                                * (year + liq.current_borrow_rate_bps
                                              * Min(dt, SECONDS_PER_YEAR))
                  /\ out.reserve.liquidity.cumulative_borrow_index * 10000
                         <= liq.cumulative_borrow_index
                                * (10000 + liq.current_borrow_rate_bps)

\* a reserve with debt has accrued interest once, and a refresh more than a
\* year later would add exactly one year of interest at the stored rate
C14_Witness ==
    \E r \in DOMAIN reserves :
        /\ accrued_interest[r] > 0
        /\ reserves[r].liquidity.total_borrows > 0
        /\ reserves[r].liquidity.current_borrow_rate_bps > 0
        /\ LET liq == reserves[r].liquidity
               late == [slot |-> clock.slot + 1,
                        unix_timestamp |->
                            reserves[r].last_update_timestamp
                                + SECONDS_PER_YEAR + 1]
               out == refresh_reserve(reserves[r], late)
           IN /\ out.err = "Ok"
              /\ out.reserve.liquidity.cumulative_borrow_index
                     > liq.cumulative_borrow_index
              /\ out.reserve.liquidity.cumulative_borrow_index
                     = (liq.cumulative_borrow_index
                            * (10000 + liq.current_borrow_rate_bps))
                           \div 10000

\* an obligation whose eight deposit and eight borrow entries are all taken by
\* other reserves, with room left in its cached borrow capacity
FullObligation(obl) ==
    [obl EXCEPT
        !.deposits = [i \in 1..MAX_OBLIGATION_DEPOSITS |->
                         ObligationCollateral_new(<<"other", i>>, 1000,
                                                  INDEX_ONE)],
        !.borrows = [i \in 1..MAX_OBLIGATION_BORROWS |->
                        ObligationLiquidity_new(<<"other", i>>, 1000,
                                                INDEX_ONE)],
        !.allowed_borrow_value_usd = 9000,
        !.borrowed_value_usd = 8000,
        !.unhealthy_borrow_value_usd = 9500]

\* an obligation whose cached values leave borrow capacity although its
\* cached health factor is below 10 000
StrainedObligation(obl) ==
    [obl EXCEPT
        !.allowed_borrow_value_usd = 1000,
        !.borrowed_value_usd = 900,
        !.unhealthy_borrow_value_usd = 850]

\* the obligations a user instruction is tried on
AtomicityObligations(u) ==
    {obligations[u], FullObligation(obligations[u]),
     StrainedObligation(obligations[u])}

\* the outcome of a user instruction on a given obligation
UserOutcomeOn(op, r, obl, signer, amount) ==
    CASE op = "deposit" ->
            deposit(lending_market, reserves[r], r, obl, token_vault[r],
                    clock, signer, amount)
      [] op = "withdraw" ->
            withdraw(lending_market, reserves[r], r, obl, token_vault[r],
                     clock, signer, amount)
      [] op = "borrow" ->
            borrow(lending_market, reserves[r], r, obl, token_vault[r],
                   clock, signer, amount)
      [] op = "repay" ->
            repay(lending_market, reserves[r], r, obl, token_vault[r],
                  clock, signer, amount)

WellFormedObligation(obl) ==
    /\ Len(obl.deposits) <= MAX_OBLIGATION_DEPOSITS
    /\ Len(obl.borrows) <= MAX_OBLIGATION_BORROWS
    /\ \A i, j \in 1..Len(obl.deposits) :
          obl.deposits[i].reserve = obl.deposits[j].reserve => i = j
    /\ \A i, j \in 1..Len(obl.borrows) :
          obl.borrows[i].reserve = obl.borrows[j].reserve => i = j
    /\ \A i \in 1..Len(obl.deposits) : obl.deposits[i].deposited_amount > 0
    /\ \A i \in 1..Len(obl.borrows) : obl.borrows[i].borrowed_amount > 0

\* C16 (obligation entries): in every reachable state every obligation has at
\* most 8 deposit and 8 borrow entries, at most one of each per reserve and
\* none with a stored amount of zero; every successful deposit, withdraw,
\* borrow, repay or liquidate leaves such an obligation; a deposit or borrow
\* that would create a ninth entry fails.
C16_ObligationEntries ==
    /\ \A u \in Users : WellFormedObligation(obligations[u])
    /\ \A op \in UserOps, r \in DOMAIN reserves, sp \in SignerPairs :
          \A obl \in {obligations[sp[2]], FullObligation(obligations[sp[2]])},
             amount \in UserAmounts(op) :
              LET out == UserOutcomeOn(op, r, obl, sp[1], amount)
              IN /\ out.err = "Ok" => WellFormedObligation(out.obligation)
                 /\ (/\ op = "deposit"
                     /\ Len(obl.deposits) = MAX_OBLIGATION_DEPOSITS
                     /\ find_deposit(obl, r) = NONE) => out.err # "Ok"
                 /\ (/\ op = "borrow"
                     /\ Len(obl.borrows) = MAX_OBLIGATION_BORROWS
                     /\ find_borrow(obl, r) = NONE) => out.err # "Ok"
    /\ \A c \in LiquidateCalls :
          LiquidateOutcome(c).err = "Ok"
              => WellFormedObligation(LiquidateOutcome(c).obligation)

\* a repayment in full has removed the borrow entry of an obligation that
\* keeps its deposit, and a ninth deposit entry would be refused
C16_Witness ==
    /\ last.op = "repay"
    /\ find_borrow(obligations[last.user], last.reserve) = NONE
    /\ ~has_borrows(obligations[last.user])
    /\ has_deposits(obligations[last.user])
    /\ \E r \in DOMAIN reserves :
          deposit(lending_market, reserves[r], r,
                  FullObligation(obligations[last.user]), token_vault[r],
                  clock, last.user, 1000).err = "MaxDepositsReached"

\* the obligation as a successful withdraw of withdraw_amount from the entry
\* of reserve r would leave it, valued afresh by refresh_obligation
RefreshedAfterWithdraw(obl, rsv, r, withdraw_amount) ==
    LET i == find_deposit(obl, r)
        current_deposit_amount ==
            AmountWithInterest(obl.deposits[i].deposited_amount,
                               rsv.liquidity.cumulative_supply_index,
                               obl.deposits[i].supply_index_snapshot)
        remaining == current_deposit_amount - withdraw_amount
    IN refresh_obligation(
           IF remaining = 0
           THEN [obl EXCEPT !.deposits = Remove(obl.deposits, i)]
           ELSE [obl EXCEPT !.deposits[i].deposited_amount = remaining,
                            !.deposits[i].supply_index_snapshot =
                                rsv.liquidity.cumulative_supply_index])

\* a borrower at the edge of the borrow capacity: u1 deposits collateral into
\* r1, u2 deposits 0.8 of that amount into r2, u1 refreshes, borrows all of
\* r2 and refreshes again; every step from the state after initialization
AtCapacity(collateral) ==
    LET clk == [slot |-> 0, unix_timestamp |-> 0]
        mkt == initialize_lending_market(NoMarketParams).lending_market
        rsv == initialize_reserve(mkt, ReserveParams, clk).reserve
        d1 == deposit(mkt, rsv, "r1", initialize_obligation("u1"), 0, clk,
                      "u1", collateral)
        d2 == deposit(mkt, rsv, "r2", initialize_obligation("u2"), 0, clk,
                      "u2", (collateral * 8) \div 10)
        b == borrow(mkt, d2.reserve, "r2", refresh_obligation(d1.obligation),
                    d2.vault, clk, "u1", (collateral * 8) \div 10)
    IN [ok |-> d1.err = "Ok" /\ d2.err = "Ok" /\ b.err = "Ok",
        lending_market |-> mkt, clock |-> clk,
        reserve |-> d1.reserve, vault |-> d1.vault,
        obligation |-> refresh_obligation(b.obligation)]

CollateralAmounts == {1250, 20000}
SmallWithdrawAmounts == {1, 2, 250, 500}

\* C17 (withdraw under debt): with a borrow outstanding and the obligation
\* refreshed, a withdraw of any size that would leave the remaining
\* collateral's allowed borrow value below borrowed_value_usd fails with
\* InsufficientBorrowCapacity or HealthFactorTooLow.  Checked on the refreshed
\* obligations of the current state and on borrowers at the edge of their
\* capacity.
C17_WithdrawUnderDebt ==
    /\ \A u \in Users, r \in DOMAIN reserves, amount \in {1, 500} :
          LET obl == obligations[u]
              out == withdraw(lending_market, reserves[r], r, obl,
                              token_vault[r], clock, u, amount)
          IN (/\ has_borrows(obl)
              /\ obl = refresh_obligation(obl)
              /\ out.err \in {"Ok", "InsufficientBorrowCapacity",
                              "HealthFactorTooLow", "PositionUnhealthy"}
              /\ RefreshedAfterWithdraw(obl, reserves[r], r, amount)
                         .allowed_borrow_value_usd < obl.borrowed_value_usd)
                 => out.err \in {"InsufficientBorrowCapacity",
                                 "HealthFactorTooLow"}
    /\ \A collateral \in CollateralAmounts, amount \in SmallWithdrawAmounts :
          LET s == AtCapacity(collateral)
              out == withdraw(s.lending_market, s.reserve, "r1", s.obligation,
                              s.vault, s.clock, "u1", amount)
          IN (/\ s.ok
              /\ RefreshedAfterWithdraw(s.obligation, s.reserve, "r1", amount)
                         .allowed_borrow_value_usd
                     < s.obligation.borrowed_value_usd)
                 => out.err \in {"InsufficientBorrowCapacity",
                                 "HealthFactorTooLow"}

\* a borrower whose debt equals the liquidation threshold of the collateral:
\* u1 deposits 2353 into r1 (0.85 x 2353 = 2000 after truncation), u2
\* deposits 2000 into r2, u1 refreshes, borrows the 2000 of r2 and refreshes
\* again; every step from the state after initialization
AtLiquidationThreshold ==
    LET clk == [slot |-> 0, unix_timestamp |-> 0]
        mkt == initialize_lending_market(NoMarketParams).lending_market
        rsv == initialize_reserve(mkt, ReserveParams, clk).reserve
        d1 == deposit(mkt, rsv, "r1", initialize_obligation("u1"), 0, clk,
                      "u1", 2353)
        d2 == deposit(mkt, rsv, "r2", initialize_obligation("u2"), 0, clk,
                      "u2", 2000)
        b == borrow(mkt, d2.reserve, "r2", refresh_obligation(d1.obligation),
                    d2.vault, clk, "u1", 2000)
    IN [ok |-> d1.err = "Ok" /\ d2.err = "Ok" /\ b.err = "Ok",
        repay_reserve |-> b.reserve, repay_vault |-> b.vault,
        collateral_reserve |-> d1.reserve, collateral_vault |-> d1.vault,
        obligation |-> refresh_obligation(b.obligation)]

\* liquidate(repay = 1000) of that borrower under the market and the clock of
\* the current state
LiquidateAtThreshold ==
    LET s == AtLiquidationThreshold
    IN liquidate(lending_market, s.repay_reserve, "r2", s.collateral_reserve,
                 "r1", s.obligation, s.repay_vault, s.collateral_vault, clock,
                 1000)

\* C18 (liquidation at the threshold): an obligation whose borrowed_value_usd
\* equals its unhealthy_borrow_value_usd exactly has health 10 000 and is
\* liquidatable; liquidate(repay = 1000) on a debt of 2000 with close factor
\* 5000, bonus 500 and protocol fee 1000 repays 1000, seizes 1050, sends 5 to
\* the fee receiver and 1045 to the liquidator, and takes 1000 off
\* repay_reserve.total_borrows and 1050 off collateral_reserve.total_deposits.
C18_LiquidationAtThreshold ==
    /\ \A obl \in HealthObligations :
          (obl.borrowed_value_usd > 0
           /\ obl.borrowed_value_usd = obl.unhealthy_borrow_value_usd)
              => (calculate_health_factor(obl) = 10000 /\ is_liquidatable(obl))
    /\ LET s == AtLiquidationThreshold
           out == LiquidateAtThreshold
       IN /\ s.ok
          /\ s.obligation.borrowed_value_usd = 2000
          /\ s.obligation.unhealthy_borrow_value_usd = 2000
          /\ s.obligation.borrows[find_borrow(s.obligation, "r2")]
                 .borrowed_amount = 2000
          /\ lending_market.close_factor_bps = 5000
          /\ lending_market.liquidation_bonus_bps = 500
          /\ lending_market.protocol_fee_bps = 1000
          /\ out.err = "Ok"
          /\ out.actual_repay = 1000
          /\ out.collateral_to_seize = 1050
          /\ out.protocol_fee = 5
          /\ out.liquidator_reward = 1045
          /\ out.repay_vault = s.repay_vault + 1000
          /\ out.collateral_vault = s.collateral_vault - 1045 - 5
          /\ out.repay_reserve.liquidity.total_borrows
                 = s.repay_reserve.liquidity.total_borrows - 1000
          /\ out.collateral_reserve.liquidity.total_deposits
                 = s.collateral_reserve.liquidity.total_deposits - 1050
          /\ out.obligation.borrows[find_borrow(out.obligation, "r2")]
                 .borrowed_amount = 1000
          /\ out.obligation.deposits[find_deposit(out.obligation, "r1")]
                 .deposited_amount = 2353 - 1050

\* C18 witness: the borrower of the example sits exactly on the threshold
\* (health 10 000) and its liquidation has gone through, with 1050 seized, in
\* a state whose clock has moved on
C18_Witness ==
    /\ AtLiquidationThreshold.ok
    /\ calculate_health_factor(AtLiquidationThreshold.obligation) = 10000
    /\ is_liquidatable(AtLiquidationThreshold.obligation)
    /\ LiquidateAtThreshold.err = "Ok"
    /\ LiquidateAtThreshold.collateral_to_seize = 1050
    /\ LiquidateAtThreshold.protocol_fee = 5
    /\ clock.slot > 0
\* the reserve of the example: initialized at the clock of the current state
\* with the default interest rate configuration, then deposit(u1, 1 000 000),
\* deposit(u2, 500 000), refresh_obligation(u1), borrow(u1, 400 000), and one
\* refresh_reserve a year (and one slot) later
OneYearExample ==
    LET mkt == initialize_lending_market(NoMarketParams).lending_market
        rsv == initialize_reserve(mkt, ReserveParams, clock).reserve
        d1 == deposit(mkt, rsv, "r1", initialize_obligation("u1"), 0, clock,
                      "u1", 1000000)
        d2 == deposit(mkt, d1.reserve, "r1", initialize_obligation("u2"),
                      d1.vault, clock, "u2", 500000)
        b == borrow(mkt, d2.reserve, "r1", refresh_obligation(d1.obligation),
                    d2.vault, clock, "u1", 400000)
        later == [slot |-> clock.slot + 1,
                  unix_timestamp |-> clock.unix_timestamp + SECONDS_PER_YEAR]
        refreshed == refresh_reserve(b.reserve, later)
    IN [ok |-> d1.err = "Ok" /\ d2.err = "Ok" /\ b.err = "Ok"
                   /\ refreshed.err = "Ok",
        fresh |-> rsv, borrowed |-> b.reserve, refreshed |-> refreshed.reserve]

\* C19 (one year of interest): starting from a fresh reserve (reserve factor
\* 1000, base 200, slope1 1000, slope2 10 000, optimal 8000) with deposits of
\* 1 000 000 and 500 000 followed by a borrow of 400 000, the stored borrow
\* rate is 533 bps; after one year a single refresh_reserve yields
\* cumulative_borrow_index = 1.0533 x INDEX_ONE, total_borrows = 421 320 and
\* accumulated_protocol_fees = 2132.
C19_OneYearOfInterest ==
    LET s == OneYearExample
        irc == s.fresh.config.interest_rate_config
    IN /\ s.ok
       /\ irc.reserve_factor_bps = 1000
       /\ irc.base_rate_bps = 200
       /\ irc.slope1_bps = 1000
       /\ irc.slope2_bps = 10000
       /\ irc.optimal_utilization_bps = 8000
       /\ s.fresh.liquidity = InitialReserveLiquidity
       /\ s.borrowed.liquidity.total_deposits = 1500000
       /\ s.borrowed.liquidity.total_borrows = 400000
       /\ s.borrowed.liquidity.current_borrow_rate_bps = 533
       /\ s.refreshed.liquidity.cumulative_borrow_index * 10000
              = 10533 * INDEX_ONE
       /\ s.refreshed.liquidity.total_borrows = 421320
       /\ s.refreshed.liquidity.accumulated_protocol_fees = 2132

\* C19 witness: the example has run to its refresh, which added interest, from
\* a state whose clock has moved on
C19_Witness ==
    /\ OneYearExample.ok
    /\ OneYearExample.borrowed.liquidity.current_borrow_rate_bps = 533
    /\ OneYearExample.refreshed.liquidity.total_borrows
           > OneYearExample.borrowed.liquidity.total_borrows
    /\ clock.unix_timestamp > 0

\* what the obligation's cached values would be with interest and with the
\* configuration of each entry's reserve: the amount of an entry is
\* amount x reserve index / snapshot, its value that amount at the 1:1
\* placeholder price (the program reads no oracle)
DepositValueWithInterest(entry) ==
    PlaceholderUsd(
        AmountWithInterest(entry.deposited_amount,
                           reserves[entry.reserve].liquidity
                               .cumulative_supply_index,
                           entry.supply_index_snapshot))

BorrowValueWithInterest(entry) ==
    PlaceholderUsd(
        AmountWithInterest(entry.borrowed_amount,
                           reserves[entry.reserve].liquidity
                               .cumulative_borrow_index,
                           entry.borrow_index_snapshot))

\* C20 (refresh_obligation values): after refresh_obligation, each deposit
\* entry's market_value_usd is computed from its amount with interest and the
\* reserve's price, deposited_value_usd is the sum of those values,
\* allowed_borrow_value_usd is the sum of value x that reserve's
\* config.ltv_bps / 10 000, unhealthy_borrow_value_usd the sum of value x that
\* reserve's config.liquidation_threshold_bps / 10 000, and borrowed_value_usd
\* the sum of the borrow entries' amounts with interest.
C20_RefreshObligationValues ==
    \A u \in Users :
        LET obl == refresh_obligation(obligations[u])
            n == Len(obl.deposits)
            m == Len(obl.borrows)
            value == [i \in 1..n |-> DepositValueWithInterest(obl.deposits[i])]
            config == [i \in 1..n |-> reserves[obl.deposits[i].reserve].config]
        IN /\ \A i \in 1..n : obl.deposits[i].market_value_usd = value[i]
           /\ obl.deposited_value_usd = SumOver(value, n)
           /\ obl.allowed_borrow_value_usd =
                  SumOver([i \in 1..n |->
                      MulDiv(value[i], config[i].ltv_bps, 10000)], n)
           /\ obl.unhealthy_borrow_value_usd =
                  SumOver([i \in 1..n |->
                      MulDiv(value[i], config[i].liquidation_threshold_bps,
                             10000)], n)
           /\ obl.borrowed_value_usd =
                  SumOver([j \in 1..m |->
                      BorrowValueWithInterest(obl.borrows[j])], m)

\* the four cached USD aggregates of an obligation
CachedAggregates(obl) ==
    <<obl.deposited_value_usd, obl.borrowed_value_usd,
      obl.allowed_borrow_value_usd, obl.unhealthy_borrow_value_usd>>

\* the cached aggregates are what refresh_obligation would compute from the
\* obligation's current entries
UpToDate(obl) == CachedAggregates(obl) = CachedAggregates(refresh_obligation(obl))

RepayRequests == {0, 1, 500, 1000, 1280, 5000}

\* the debt of the obligation's borrow entry for the reserve, with interest
CurrentBorrow(obl, r) ==
    LET entry == obl.borrows[find_borrow(obl, r)]
    IN (entry.borrowed_amount
            * reserves[r].liquidity.cumulative_borrow_index)
           \div entry.borrow_index_snapshot

\* C22 (repay amounts): a successful repay(request) transfers and deducts
\* exactly repay_amount = min(request, current_borrow), request = 0 meaning
\* current_borrow, where current_borrow is the entry's debt with interest;
\* total_borrows decreases by exactly repay_amount, the vault increases by
\* exactly repay_amount, and the borrow entry is removed if and only if
\* repay_amount = current_borrow, otherwise it stores
\* current_borrow - repay_amount with the current borrow index as snapshot.
C22_RepayAmounts ==
    \A r \in DOMAIN reserves, sp \in SignerPairs, request \in RepayRequests :
        LET obl == obligations[sp[2]]
            out == repay(lending_market, reserves[r], r, obl, token_vault[r],
                         clock, sp[1], request)
            current_borrow == CurrentBorrow(obl, r)
            repay_amount == IF request = 0 THEN current_borrow
                            ELSE Min(request, current_borrow)
            i == find_borrow(out.obligation, r)
        IN out.err = "Ok"
            => /\ find_borrow(obl, r) # NONE
               /\ out.vault = token_vault[r] + repay_amount
               /\ out.reserve.liquidity.total_borrows
                      = reserves[r].liquidity.total_borrows - repay_amount
               /\ i = NONE <=> repay_amount = current_borrow
               /\ i # NONE
                    => /\ out.obligation.borrows[i].borrowed_amount
                              = current_borrow - repay_amount
                       /\ out.obligation.borrows[i].borrow_index_snapshot
                              = reserves[r].liquidity.cumulative_borrow_index
               /\ Len(out.obligation.borrows)
                      = Len(obl.borrows) - (IF i = NONE THEN 1 ELSE 0)

\* C22 witness: a partial repay has gone through and left its entry, and on
\* a debt that has grown with interest a repay of everything, a partial one
\* and one asking for more than the debt all succeed
C22_Witness ==
    /\ last.op = "repay"
    /\ find_borrow(obligations[last.user], last.reserve) # NONE
    /\ \E r \in DOMAIN reserves, u \in Users :
          /\ find_borrow(obligations[u], r) # NONE
          /\ CurrentBorrow(obligations[u], r)
                 > obligations[u].borrows[find_borrow(obligations[u], r)]
                       .borrowed_amount
          /\ \A request \in {0, 500, 5000} :
                repay(lending_market, reserves[r], r, obligations[u],
                      token_vault[r], clock, u, request).err = "Ok"

\* requests of the withdraw calls checked: everything, and less than, exactly
\* and more than the deposits of the exploration
WithdrawRequests == {0, 1, 500, 1000, 2000}

\* the amount a withdraw request stands for: the entry's amount with interest
\* when the request is 0
WithdrawnAmount(obl, r, request) ==
    LET entry == obl.deposits[find_deposit(obl, r)]
        current == (entry.deposited_amount
                        * reserves[r].liquidity.cumulative_supply_index)
                       \div entry.supply_index_snapshot
    IN [current |-> current,
        amount |-> IF request = 0 THEN current ELSE request]

\* the four conditions of the withdraw preconditions
HasDepositEntry(obl, r) == find_deposit(obl, r) # NONE

WithinDeposit(obl, r, request) ==
    WithdrawnAmount(obl, r, request).amount
        <= WithdrawnAmount(obl, r, request).current

WithinLiquidity(obl, r, request) ==
    WithdrawnAmount(obl, r, request).amount
        <= reserves[r].liquidity.total_deposits
               - reserves[r].liquidity.total_borrows

WithinVault(obl, r, request) ==
    WithdrawnAmount(obl, r, request).amount <= token_vault[r]

WithdrawPreconditions(obl, r, request) ==
    /\ HasDepositEntry(obl, r)
    /\ WithinDeposit(obl, r, request)
    /\ WithinLiquidity(obl, r, request)
    /\ WithinVault(obl, r, request)

WithdrawPreconditionErrors ==
    {"NoDepositFound", "InsufficientDeposit", "InsufficientLiquidity",
     "InsufficientVaultBalance"}

WithdrawOutcome(r, sp, request) ==
    withdraw(lending_market, reserves[r], r, obligations[sp[2]],
             token_vault[r], clock, sp[1], request)

ChangesNothing(out, r, u) ==
    /\ out.reserve = reserves[r]
    /\ out.obligation = obligations[u]
    /\ out.vault = token_vault[r]

\* C23 as stated (withdraw preconditions): withdraw succeeds only if the
\* obligation has a deposit entry for the reserve and the withdrawn amount
\* (the full amount with interest when the request is 0) is <= the entry's
\* current amount with interest, <= total_deposits - total_borrows, and <= the
\* vault balance; otherwise it fails with NoDepositFound, InsufficientDeposit,
\* InsufficientLiquidity or InsufficientVaultBalance and changes nothing.
\* Checked on the calls signed by the obligation's owner.
C23_WithdrawPreconditions ==
    \A r \in DOMAIN reserves, sp \in SignerPairs,
       request \in WithdrawRequests :
        LET obl == obligations[sp[2]]
            out == WithdrawOutcome(r, sp, request)
        IN sp[1] = obl.owner
            => /\ out.err = "Ok" => WithdrawPreconditions(obl, r, request)
               /\ ~WithdrawPreconditions(obl, r, request)
                    => /\ out.err \in WithdrawPreconditionErrors
                       /\ ChangesNothing(out, r, sp[2])

\* C23 as amended (withdraw preconditions): withdraw succeeds only if the
\* four conditions hold.  When the signer owns the obligation and the reserve
\* is not stale, it fails with NoDepositFound, InsufficientDeposit,
\* InsufficientLiquidity or InsufficientVaultBalance exactly when a condition
\* fails, the error being that of the first failing condition in this order;
\* when the signer is not the owner or the reserve is stale it fails with
\* InvalidObligationOwner or ReserveStale whatever the conditions.  Every
\* failure changes nothing.
C23_WithdrawPreconditionsInOrder ==
    \A r \in DOMAIN reserves, sp \in SignerPairs,
       request \in WithdrawRequests :
        LET obl == obligations[sp[2]]
            out == WithdrawOutcome(r, sp, request)
            first_failing ==
                IF ~HasDepositEntry(obl, r) THEN "NoDepositFound"
                ELSE IF ~WithinDeposit(obl, r, request)
                THEN "InsufficientDeposit"
                ELSE IF ~WithinLiquidity(obl, r, request)
                THEN "InsufficientLiquidity"
                ELSE IF ~WithinVault(obl, r, request)
                THEN "InsufficientVaultBalance"
                ELSE "none"
        IN /\ out.err = "Ok" => WithdrawPreconditions(obl, r, request)
           /\ out.err # "Ok" => ChangesNothing(out, r, sp[2])
           /\ IF sp[1] # obl.owner THEN out.err = "InvalidObligationOwner"
              ELSE IF SlotsSinceUpdate(r) > 1500 THEN out.err = "ReserveStale"
              ELSE /\ first_failing # "none" => out.err = first_failing
                   /\ first_failing = "none"
                        => out.err \notin WithdrawPreconditionErrors

\* C23 witness: a withdraw has gone through, and in the state it left a
\* withdraw of more than the deposit, one of more than the reserve's
\* liquidity and one from a reserve without an entry are all refused
C23_Witness ==
    /\ last.op = "withdraw"
    /\ \E r \in DOMAIN reserves, u \in Users :
          WithdrawOutcome(r, <<u, u>>, 2000).err = "InsufficientDeposit"
    /\ \E r \in DOMAIN reserves, u \in Users :
          WithdrawOutcome(r, <<u, u>>, 0).err = "InsufficientLiquidity"
    /\ \E r \in DOMAIN reserves, u \in Users :
          WithdrawOutcome(r, <<u, u>>, 500).err = "NoDepositFound"

\* update_reserve_config calls of the authority that set the deposit limit
\* and the deposits switch of a reserve
DepositLimits == {0, 1999, 2500}

LimitUpdates ==
    {[NoUpdate EXCEPT !.deposit_limit = Some(l)] : l \in DepositLimits}
        \cup {[NoUpdate EXCEPT !.deposits_enabled = Some(FALSE)]}

\* the reserve of the current state after such a call
WithLimit(r, params) == update_reserve_config(reserves[r], TRUE, params).reserve

DepositRequests == {999, 1000, 1500}

DepositUnderLimit(r, params, sp, amount) ==
    deposit(lending_market, WithLimit(r, params), r, obligations[sp[2]],
            token_vault[r], clock, sp[1], amount)

\* C24 (deposit preconditions): deposit succeeds only if amount >= 1 000, the
\* reserve's deposits_enabled is true, and (when deposit_limit > 0)
\* total_deposits + amount <= deposit_limit; hence no successful deposit
\* leaves total_deposits above a positive deposit_limit, and a successful
\* deposit increases total_deposits and the vault by exactly amount.
C24_DepositPreconditions ==
    \A r \in DOMAIN reserves, params \in LimitUpdates, sp \in SignerPairs,
       amount \in DepositRequests :
        LET rsv == WithLimit(r, params)
            out == DepositUnderLimit(r, params, sp, amount)
        IN out.err = "Ok"
            => /\ amount >= 1000
               /\ rsv.config.deposits_enabled
               /\ rsv.config.deposit_limit > 0
                    => /\ rsv.liquidity.total_deposits + amount
                              <= rsv.config.deposit_limit
                       /\ out.reserve.liquidity.total_deposits
                              <= out.reserve.config.deposit_limit
               /\ out.reserve.config = rsv.config
               /\ out.reserve.liquidity.total_deposits
                      = reserves[r].liquidity.total_deposits + amount
               /\ out.vault = token_vault[r] + amount

\* C24 witness: a reserve that holds a deposit takes, under a limit of 2 500,
\* a further deposit of 1 500 that reaches the limit exactly, and refuses a
\* deposit of 1 000 under a limit of 1 999, one of 999, and any deposit when
\* deposits are switched off
C24_Witness ==
    /\ last.op = "deposit"
    /\ \E r \in DOMAIN reserves, u \in Users :
          LET on(l) == [NoUpdate EXCEPT !.deposit_limit = Some(l)]
              off == [NoUpdate EXCEPT !.deposits_enabled = Some(FALSE)]
          IN /\ reserves[r].liquidity.total_deposits = 1000
             /\ DepositUnderLimit(r, on(2500), <<u, u>>, 1500).err = "Ok"
             /\ DepositUnderLimit(r, on(1999), <<u, u>>, 1000).err
                    = "DepositLimitExceeded"
             /\ DepositUnderLimit(r, on(0), <<u, u>>, 999).err
                    = "AmountTooSmall"
             /\ DepositUnderLimit(r, off, <<u, u>>, 1000).err
                    = "DepositsDisabled"

\* who may sign an instruction: the two users and a third party that owns no
\* obligation
Signers == Users \cup {"u3"}

\* deposit, withdraw or borrow on the obligation of u signed by s
OwnerOutcome(op, r, u, s, amount) ==
    CASE op = "deposit" ->
            deposit(lending_market, reserves[r], r, obligations[u],
                    token_vault[r], clock, s, amount)
      [] op = "withdraw" ->
            withdraw(lending_market, reserves[r], r, obligations[u],
                     token_vault[r], clock, s, amount)
      [] op = "borrow" ->
            borrow(lending_market, reserves[r], r, obligations[u],
                   token_vault[r], clock, s, amount)

RepayBy(r, u, s, amount) ==
    repay(lending_market, reserves[r], r, obligations[u], token_vault[r],
          clock, s, amount)

\* C25 (owner only): deposit, withdraw and borrow on an obligation succeed
\* only when the signer is that obligation's owner, so another user's call
\* adds no collateral entry, withdraws no collateral and adds no debt; repay
\* succeeds for any payer, and liquidate, which reads nothing of its signer,
\* for any liquidator.
C25_OwnerOnly ==
    \A r \in DOMAIN reserves, u \in Users, s \in Signers :
        /\ \A op \in {"deposit", "withdraw", "borrow"} :
              \A amount \in UserAmounts(op) :
                  LET out == OwnerOutcome(op, r, u, s, amount)
                  IN /\ out.err = "Ok" => s = obligations[u].owner
                     /\ s # obligations[u].owner
                          => /\ out.obligation = obligations[u]
                             /\ out.reserve = reserves[r]
                             /\ out.vault = token_vault[r]
        /\ \A amount \in RepayAmounts :
              RepayBy(r, u, s, amount) = RepayBy(r, u, u, amount)

\* C25 witness: a borrow has gone through; on the borrower's obligation a
\* deposit signed by its owner would succeed where the same deposit signed by
\* the other user is refused, and so are the other user's withdraw and
\* borrow, while a repay by the third party succeeds
C25_Witness ==
    /\ last.op = "borrow"
    /\ \E r \in DOMAIN reserves, s \in Users \ {last.user} :
          /\ OwnerOutcome("deposit", r, last.user, last.user, 1000).err = "Ok"
          /\ OwnerOutcome("deposit", r, last.user, s, 1000).err
                 = "InvalidObligationOwner"
          /\ OwnerOutcome("withdraw", r, last.user, s, 500).err # "Ok"
          /\ OwnerOutcome("borrow", r, last.user, s, 800).err # "Ok"
    /\ RepayBy(last.reserve, last.user, "u3", 500).err = "Ok"
\* the invariants of a market and of a reserve's configuration
ValidMarket(mkt) ==
    /\ mkt.close_factor_bps <= 10000
    /\ mkt.liquidation_bonus_bps <= 2500
    /\ mkt.protocol_fee_bps <= 10000
    /\ mkt.reserves_count <= 32

ValidReserveConfig(config) ==
    /\ config.ltv_bps < config.liquidation_threshold_bps
    /\ config.liquidation_threshold_bps <= 10000
    /\ config.interest_rate_config.optimal_utilization_bps <= 10000
    /\ config.interest_rate_config.reserve_factor_bps <= 10000

\* parameters of initialize_lending_market, on and beyond each bound
MarketParamChoices ==
    [close_factor_bps : {None, Some(10000), Some(10001)},
     liquidation_bonus_bps : {None, Some(2500), Some(2501)},
     protocol_fee_bps : {None, Some(10000), Some(10001)}]

\* parameters of initialize_reserve, on and beyond each bound
ReserveParamChoices ==
    {[ReserveParams EXCEPT !.ltv_bps = t[1],
                           !.liquidation_threshold_bps = t[2],
                           !.interest_rate_config = irc] :
        t \in {<<8500, 8500>>, <<9999, 10000>>, <<10000, 10001>>},
        irc \in {None,
                 Some([DefaultInterestRateConfig EXCEPT
                          !.optimal_utilization_bps = 10000,
                          !.reserve_factor_bps = 10000]),
                 Some([DefaultInterestRateConfig EXCEPT
                          !.optimal_utilization_bps = 10001]),
                 Some([DefaultInterestRateConfig EXCEPT
                          !.reserve_factor_bps = 10001])}}

\* parameters of update_reserve_config, on and beyond each bound
UpdateParamChoices ==
    {[NoUpdate EXCEPT !.ltv_bps = l, !.liquidation_threshold_bps = t,
                      !.optimal_utilization_bps = o,
                      !.reserve_factor_bps = f] :
        l \in {None, Some(8500), Some(9999)},
        t \in {None, Some(10000), Some(10001)},
        o \in {None, Some(10001)},
        f \in {None, Some(10001)}}

\* the markets a reserve may be added to: the market of the current state
\* with its count of reserves, and with 31 and 32 reserves
MarketsByCount ==
    {[lending_market EXCEPT !.reserves_count = n] :
        n \in {lending_market.reserves_count, 31, 32}}

\* the reserves update_reserve_config is applied to: those of the current
\* state and those initialize_reserve creates
ReservesByInit ==
    {reserves[r] : r \in DOMAIN reserves}
        \cup {initialize_reserve(lending_market, p, clock).reserve :
                 p \in {q \in ReserveParamChoices :
                           initialize_reserve(lending_market, q, clock).err
                               = "Ok"}}

\* C26 (configuration invariants): after any sequence of init_market,
\* init_reserve and update_reserve_config calls, successful or failed, every
\* market satisfies close_factor_bps <= 10 000, liquidation_bonus_bps <= 2 500,
\* protocol_fee_bps <= 10 000 and reserves_count <= 32, and every reserve
\* satisfies ltv_bps < liquidation_threshold_bps <= 10 000,
\* optimal_utilization_bps <= 10 000 and reserve_factor_bps <= 10 000; a
\* rejected update_reserve_config leaves the stored config unchanged.
C26_ConfigurationInvariants ==
    /\ ValidMarket(lending_market)
    /\ \A r \in DOMAIN reserves : ValidReserveConfig(reserves[r].config)
    /\ \A p \in MarketParamChoices :
          initialize_lending_market(p).err = "Ok"
              => ValidMarket(initialize_lending_market(p).lending_market)
    /\ \A mkt \in MarketsByCount, p \in ReserveParamChoices :
          LET out == initialize_reserve(mkt, p, clock)
          IN IF out.err = "Ok"
             THEN /\ ValidReserveConfig(out.reserve.config)
                  /\ ValidMarket(out.lending_market)
             ELSE out.lending_market = mkt
    /\ \A rsv \in ReservesByInit, p \in UpdateParamChoices,
          is_authority \in BOOLEAN :
          LET out == update_reserve_config(rsv, is_authority, p)
          IN IF out.err = "Ok"
             THEN ValidReserveConfig(out.reserve.config)
             ELSE out.reserve = rsv

\* C26 witness: an update_reserve_config has gone through, and in the state it
\* left the market is full for a thirty-third reserve, a reserve with a
\* threshold of 10 001 is refused, and an update that would put the ltv on the
\* threshold is rejected while one that stays below it is accepted
C26_Witness ==
    /\ last.op = "update_reserve_config"
    /\ initialize_reserve([lending_market EXCEPT !.reserves_count = 32],
                          ReserveParams, clock).err = "MaxReservesReached"
    /\ initialize_reserve(lending_market,
                          [ReserveParams EXCEPT
                              !.ltv_bps = 10000,
                              !.liquidation_threshold_bps = 10001],
                          clock).err = "InvalidLiquidationThreshold"
    /\ \E r \in DOMAIN reserves :
          /\ update_reserve_config(
                 reserves[r], TRUE,
                 [NoUpdate EXCEPT !.ltv_bps = Some(8500)]).err
                 = "InvalidLtvThreshold"
          /\ update_reserve_config(
                 reserves[r], TRUE,
                 [NoUpdate EXCEPT !.ltv_bps = Some(8500),
                                  !.liquidation_threshold_bps = Some(10000)])
                 .err = "Ok"

\* C27: along the rate curve of every valid configuration, the kink at
\* optimal_utilization_bps and the curves with optimal_utilization_bps of 0 and
\* of 10 000 included, one more basis point of utilization never lowers
\* calculate_borrow_rate, nor calculate_supply_rate fed the matching borrow
\* rate.
C27_RatesMonotonic ==
    [][/\ rates'.borrow_rate_bps >= rates.borrow_rate_bps
       /\ rates'.supply_rate_bps >= rates.supply_rate_bps]_vars

\* the curve has been followed across a kink in the middle of the range, and
\* the rate above the kink is the higher one
C27_Witness ==
    /\ rates.config.optimal_utilization_bps = 8000
    /\ rates.utilization_bps = 8001
    /\ rates.config.slope2_bps = 10000
    /\ rates.borrow_rate_bps
           > calculate_borrow_rate(rates.config, 8000)
    /\ rates.supply_rate_bps
           >= calculate_supply_rate(rates.config,
                                    calculate_borrow_rate(rates.config, 8000),
                                    8000)

\* borrow rates calculate_supply_rate is fed besides the one of the curve:
\* none, the least, one of the curve's middle, the default curve's highest and
\* the highest a curve of u16 parameters yields
SupplyBorrowRates == {0, 1, 533, 11200, 196605}

\* floor(borrow_rate_bps x utilization_bps / 10 000)
GrossSupplyRate(borrow_rate_bps, utilization_bps) ==
    MulDiv(borrow_rate_bps, utilization_bps, 10000)

\* the borrow rates examined at a point of the curve
BorrowRatesAt(point) == SupplyBorrowRates \cup {point.borrow_rate_bps}

\* C28 (as stated): for every borrow rate, utilization and reserve factor of at
\* most 10 000, calculate_supply_rate returns
\* floor(floor(borrow_rate x U / 10 000) x (10 000 - reserve_factor_bps)
\* / 10 000).
C28_SupplyRateRoundedDown ==
    \A borrow_rate_bps \in BorrowRatesAt(rates) :
        calculate_supply_rate(rates.config, borrow_rate_bps,
                              rates.utilization_bps)
            = (GrossSupplyRate(borrow_rate_bps, rates.utilization_bps)
                   * (10000 - rates.config.reserve_factor_bps)) \div 10000

\* C28 (amended): calculate_supply_rate subtracts the protocol's cut, rounded
\* down, from G = floor(borrow_rate x U / 10 000); what it returns is
\* G x (10 000 - reserve_factor_bps) / 10 000 rounded up: the least s with
\* s x 10 000 >= G x (10 000 - reserve_factor_bps).
C28_SupplyRateRoundedUp ==
    \A borrow_rate_bps \in BorrowRatesAt(rates) :
        LET G == GrossSupplyRate(borrow_rate_bps, rates.utilization_bps)
            kept == G * (10000 - rates.config.reserve_factor_bps)
            s == calculate_supply_rate(rates.config, borrow_rate_bps,
                                       rates.utilization_bps)
        IN /\ s * 10000 >= kept
           /\ s = 0 \/ (s - 1) * 10000 < kept

\* a point of a curve where the cut is not a whole number of basis points:
\* the supply rate stored with it is above the rounded-down quotient
C28_Witness ==
    LET G == GrossSupplyRate(rates.borrow_rate_bps, rates.utilization_bps)
        kept == G * (10000 - rates.config.reserve_factor_bps)
    IN /\ rates.utilization_bps > 0
       /\ rates.config.reserve_factor_bps = 1000
       /\ kept % 10000 # 0
       /\ rates.supply_rate_bps = kept \div 10000 + 1


\* the reserve's stored rates are the ones of its current utilization
RatesConsistent(rsv) == rsv.liquidity = WithUpdatedRates(rsv).liquidity

\* C29 (stored rates): after every successful deposit, withdraw, borrow, repay
\* and liquidate, and after every state-changing refresh_reserve, the
\* reserve's stored current_borrow_rate_bps is calculate_borrow_rate of its
\* utilization total_borrows x 10 000 / total_deposits, and its stored
\* current_supply_rate_bps the matching supply rate.
C29_StoredRatesConsistent ==
    /\ \A op \in UserOps, r \in DOMAIN reserves, sp \in SignerPairs :
          \A amount \in UserAmounts(op) :
              LET out == UserOutcome(op, r, sp, amount)
              IN out.err = "Ok" => RatesConsistent(out.reserve)
    /\ \A c \in LiquidateCalls :
          LET out == LiquidateOutcome(c)
          IN out.err = "Ok"
                => /\ RatesConsistent(out.repay_reserve)
                   /\ RatesConsistent(out.collateral_reserve)
    /\ \A r \in DOMAIN reserves :
          LET out == refresh_reserve(reserves[r], clock)
          IN (out.err = "Ok" /\ out.reserve # reserves[r])
                => RatesConsistent(out.reserve)


\* C30 (liquidation on fresh indexes): liquidate does not succeed while the
\* repay reserve's or the collateral reserve's last_update_slot is more than
\* 1 500 slots behind the current slot; the reserve has to be refreshed
\* first.
C30_LiquidateOnFreshReserves ==
    \A c \in LiquidateCalls :
        LiquidateOutcome(c).err = "Ok"
            => /\ SlotsSinceUpdate(c.repay) <= MAX_RESERVE_STALENESS_SLOTS
               /\ SlotsSinceUpdate(c.collateral) <= MAX_RESERVE_STALENESS_SLOTS


\* the deposit entry for reserve r after an operation that changed the
\* entry's amount by delta: an entry there before holds its amount with
\* interest plus delta, a new one holds delta, either with the current index
DepositRenormalized(before, after, r, index, delta) ==
    LET i == find_deposit(before, r)
        j == find_deposit(after, r)
        current == (before.deposits[i].deposited_amount * index)
                       \div before.deposits[i].supply_index_snapshot
    IN /\ i = NONE => j # NONE
       /\ j # NONE
            => /\ after.deposits[j].deposited_amount
                     = (IF i = NONE THEN 0 ELSE current) + delta
               /\ after.deposits[j].supply_index_snapshot = index

\* the same for the borrow entry
BorrowRenormalized(before, after, r, index, delta) ==
    LET i == find_borrow(before, r)
        j == find_borrow(after, r)
        current == (before.borrows[i].borrowed_amount * index)
                       \div before.borrows[i].borrow_index_snapshot
    IN /\ i = NONE => j # NONE
       /\ j # NONE
            => /\ after.borrows[j].borrowed_amount
                     = (IF i = NONE THEN 0 ELSE current) + delta
               /\ after.borrows[j].borrow_index_snapshot = index

\* what a user instruction adds to its entry: the amount deposited or
\* borrowed, minus the amount withdrawn or repaid (0 and, for repay, any
\* request above the entry's amount with interest meaning all of it)
EntryDelta(op, obl, r, amount) ==
    LET liq == reserves[r].liquidity
        deposit_entry == obl.deposits[find_deposit(obl, r)]
        borrow_entry == obl.borrows[find_borrow(obl, r)]
        deposited == (deposit_entry.deposited_amount
                         * liq.cumulative_supply_index)
                         \div deposit_entry.supply_index_snapshot
        borrowed == (borrow_entry.borrowed_amount
                        * liq.cumulative_borrow_index)
                        \div borrow_entry.borrow_index_snapshot
    IN CASE op = "deposit" -> amount
         [] op = "borrow" -> amount
         [] op = "withdraw" -> IF amount = 0 THEN 0 - deposited ELSE 0 - amount
         [] op = "repay" -> IF amount = 0 \/ amount >= borrowed
                            THEN 0 - borrowed ELSE 0 - amount

\* every entry's snapshot is at most its reserve's current index
SnapshotsBehindIndex(obl) ==
    /\ \A i \in 1..Len(obl.deposits) :
          obl.deposits[i].supply_index_snapshot
              <= reserves[obl.deposits[i].reserve].liquidity
                     .cumulative_supply_index
    /\ \A i \in 1..Len(obl.borrows) :
          obl.borrows[i].borrow_index_snapshot
              <= reserves[obl.borrows[i].reserve].liquidity
                     .cumulative_borrow_index

\* C31 (renormalization): whenever deposit, withdraw, borrow, repay or
\* liquidate updates an existing entry, the new stored amount is the entry's
\* amount with interest, floor(stored x current_index / snapshot), plus or
\* minus the operation's amount, and the new snapshot is the reserve's
\* current cumulative index; a newly created entry stores exactly the
\* operation's amount and the current index. Every entry's snapshot is at
\* most its reserve's current index in every reachable state.
C31_EntriesRenormalized ==
    /\ \A op \in UserOps, r \in DOMAIN reserves, sp \in SignerPairs :
          \A amount \in UserAmounts(op) \cup RepayRequests :
              LET out == UserOutcome(op, r, sp, amount)
                  obl == obligations[sp[2]]
                  liq == reserves[r].liquidity
                  delta == EntryDelta(op, obl, r, amount)
              IN out.err = "Ok"
                    => IF op \in {"deposit", "withdraw"}
                       THEN DepositRenormalized(obl, out.obligation, r,
                                liq.cumulative_supply_index, delta)
                       ELSE BorrowRenormalized(obl, out.obligation, r,
                                liq.cumulative_borrow_index, delta)
    /\ \A c \in LiquidateCalls :
          LET out == LiquidateOutcome(c)
              obl == obligations[c.user]
          IN out.err = "Ok"
                => /\ BorrowRenormalized(obl, out.obligation, c.repay,
                          reserves[c.repay].liquidity.cumulative_borrow_index,
                          0 - out.actual_repay)
                   /\ DepositRenormalized(obl, out.obligation, c.collateral,
                          reserves[c.collateral].liquidity
                              .cumulative_supply_index,
                          0 - out.collateral_to_seize)
    /\ \A u \in Users : SnapshotsBehindIndex(obligations[u])

\* an entry whose interest had accrued has been updated: its snapshot is the
\* reserve's index, which is above the initial one
C31_Witness ==
    /\ last.op \in {"repay", "withdraw", "liquidate"}
    /\ \E u \in Users :
          \/ \E i \in 1..Len(obligations[u].borrows) :
                LET entry == obligations[u].borrows[i]
                IN /\ entry.borrow_index_snapshot > INDEX_ONE
                   /\ entry.borrow_index_snapshot
                        = reserves[entry.reserve].liquidity
                              .cumulative_borrow_index
          \/ \E i \in 1..Len(obligations[u].deposits) :
                LET entry == obligations[u].deposits[i]
                IN /\ entry.supply_index_snapshot > INDEX_ONE
                   /\ entry.supply_index_snapshot
                        = reserves[entry.reserve].liquidity
                              .cumulative_supply_index


\* The divisors that are not constants, by the place that divides: the set
\* holds the value divided by where the code reaches the division, and is
\* empty where a guard keeps the code from it.
\* Reserve::calculate_utilization_bps
calculate_utilization_bps_divisors(rsv) ==
    IF rsv.liquidity.total_deposits = 0 THEN {}
    ELSE {rsv.liquidity.total_deposits}

\* InterestRateConfig::calculate_borrow_rate
calculate_borrow_rate_divisors(irc, utilization_bps) ==
    IF utilization_bps <= irc.optimal_utilization_bps
    THEN IF irc.optimal_utilization_bps = 0 THEN {}
         ELSE {irc.optimal_utilization_bps}
    ELSE IF 10000 - irc.optimal_utilization_bps = 0 THEN {}
         ELSE {10000 - irc.optimal_utilization_bps}

\* Obligation::calculate_health_factor
calculate_health_factor_divisors(obl) ==
    IF obl.borrowed_value_usd = 0 THEN {} ELSE {obl.borrowed_value_usd}

\* refresh_reserve: the supply index update
refresh_reserve_divisors(rsv) ==
    IF rsv.liquidity.total_deposits > 0 THEN {rsv.liquidity.total_deposits}
    ELSE {}

\* the guarded "amount with interest" of withdraw, repay and liquidate
AmountWithInterest_divisors(snapshot) ==
    IF snapshot > 0 THEN {snapshot} ELSE {}

\* the handlers of deposit, withdraw, borrow and repay on the obligation's
\* entry for reserve r; deposit and borrow divide by the snapshot of an
\* existing entry without a guard
handler_divisors(op, r, obl, amount) ==
    LET deposit_index == find_deposit(obl, r)
        borrow_index == find_borrow(obl, r)
        deposit_entry == obl.deposits[deposit_index]
        borrow_entry == obl.borrows[borrow_index]
        current_deposit_amount ==
            AmountWithInterest(deposit_entry.deposited_amount,
                               reserves[r].liquidity.cumulative_supply_index,
                               deposit_entry.supply_index_snapshot)
    IN CASE op = "deposit" ->
              IF deposit_index = NONE THEN {}
              ELSE {deposit_entry.supply_index_snapshot}
         [] op = "borrow" ->
              IF borrow_index = NONE THEN {}
              ELSE {borrow_entry.borrow_index_snapshot}
         [] op = "repay" ->
              IF borrow_index = NONE THEN {}
              ELSE AmountWithInterest_divisors(
                       borrow_entry.borrow_index_snapshot)
         [] op = "withdraw" ->
              IF deposit_index = NONE THEN {}
              ELSE AmountWithInterest_divisors(
                       deposit_entry.supply_index_snapshot)
                   \cup (IF ~has_borrows(obl) THEN {}
                         ELSE (IF current_deposit_amount > 0
                               THEN {current_deposit_amount} ELSE {})
                              \cup (IF obl.borrowed_value_usd > 0
                                    THEN {obl.borrowed_value_usd} ELSE {}))

\* utilizations the rate model's divisors are looked at: the ends of the
\* range, the kink of the default curve and its neighbours
DivisorUtilizations == {0, 1, 7999, 8000, 8001, 9999, 10000}

\* C32 (no division by zero): in every reachable state every deposit and
\* borrow entry has a non-zero index snapshot, utilization is 0 when
\* total_deposits is 0, the rate model does not divide by zero for
\* optimal_utilization_bps = 0 or 10 000, and no handler, withdraw and the
\* health factor included, divides by a zero borrowed_value_usd, a zero
\* current deposit amount or any other zero.
C32_NoDivisionByZero ==
    /\ \A u \in Users :
          /\ \A i \in 1..Len(obligations[u].deposits) :
                obligations[u].deposits[i].supply_index_snapshot # 0
          /\ \A i \in 1..Len(obligations[u].borrows) :
                obligations[u].borrows[i].borrow_index_snapshot # 0
    /\ \A r \in DOMAIN reserves :
          /\ 0 \notin calculate_utilization_bps_divisors(reserves[r])
          /\ 0 \notin refresh_reserve_divisors(reserves[r])
          /\ reserves[r].liquidity.total_deposits = 0
                => calculate_utilization_bps(reserves[r]) = 0
    /\ \A irc \in RateConfigs, utilization_bps \in DivisorUtilizations :
          /\ 0 \notin calculate_borrow_rate_divisors(irc, utilization_bps)
          /\ calculate_borrow_rate(irc, utilization_bps) >= irc.base_rate_bps
    /\ \A obl \in HealthObligations :
          0 \notin calculate_health_factor_divisors(obl)
    /\ \A op \in UserOps, r \in DOMAIN reserves, u \in Users :
          \A amount \in UserAmounts(op) :
              0 \notin handler_divisors(op, r, obligations[u], amount)

\* the guards are in use: a reserve without deposits next to one that has
\* lent, and an obligation that has a borrow entry and a deposit entry
C32_Witness ==
    /\ \E r \in DOMAIN reserves :
          /\ reserves[r].liquidity.total_deposits = 0
          /\ calculate_utilization_bps_divisors(reserves[r]) = {}
    /\ \E r \in DOMAIN reserves :
          /\ reserves[r].liquidity.total_borrows > 0
          /\ calculate_utilization_bps_divisors(reserves[r]) # {}
    /\ \E u \in Users, r \in DOMAIN reserves :
          /\ handler_divisors("borrow", r, obligations[u], 800) # {}
          /\ handler_divisors("withdraw", r, obligations[u], 500) # {}


\* the markets liquidations are examined under: the one of the state, and
\* one whose close factor lets a liquidation repay a debt in full and seize
\* a deposit in full
LiquidationMarkets ==
    {lending_market,
     initialize_lending_market(
         [close_factor_bps |-> Some(10000),
          liquidation_bonus_bps |-> Some(0),
          protocol_fee_bps |-> None]).lending_market}

\* repay amounts of the liquidations examined: below, at and above the debts
FrameLiquidateAmounts == {600, 1000, 5000}

LiquidateUnder(mkt, c, repay_amount) ==
    liquidate(mkt, reserves[c.repay], c.repay, reserves[c.collateral],
              c.collateral, obligations[c.user], token_vault[c.repay],
              token_vault[c.collateral], clock, repay_amount)

\* the entries for other reserves, in their order
OtherEntries(entries, reserve) ==
    SelectSeq(entries, LAMBDA entry : entry.reserve # reserve)

\* C33 (frame of liquidate): a successful liquidate changes only the
\* obligation's borrow entry of the repay reserve and its deposit entry of
\* the collateral reserve. The borrow entry's debt with interest drops by
\* exactly actual_repay and the deposit entry's amount with interest by
\* exactly collateral_to_seize, each entry being removed when it reaches
\* zero and otherwise stored with the current index; all other deposit and
\* borrow entries keep their reserve, amount, snapshot and relative order.
C33_LiquidateFrame ==
    \A c \in LiquidateCalls, mkt \in LiquidationMarkets :
        \A repay_amount \in FrameLiquidateAmounts :
            LET out == LiquidateUnder(mkt, c, repay_amount)
                obl == obligations[c.user]
                after == out.obligation
                borrow_entry == obl.borrows[find_borrow(obl, c.repay)]
                deposit_entry == obl.deposits[find_deposit(obl, c.collateral)]
                borrow_index ==
                    reserves[c.repay].liquidity.cumulative_borrow_index
                supply_index ==
                    reserves[c.collateral].liquidity.cumulative_supply_index
                debt == (borrow_entry.borrowed_amount * borrow_index)
                            \div borrow_entry.borrow_index_snapshot
                collateral == (deposit_entry.deposited_amount * supply_index)
                                  \div deposit_entry.supply_index_snapshot
                j == find_borrow(after, c.repay)
                k == find_deposit(after, c.collateral)
            IN out.err = "Ok"
                  => /\ OtherEntries(after.borrows, c.repay)
                           = OtherEntries(obl.borrows, c.repay)
                     /\ OtherEntries(after.deposits, c.collateral)
                           = OtherEntries(obl.deposits, c.collateral)
                     /\ Len(after.borrows)
                           = Len(obl.borrows)
                                 - (IF debt = out.actual_repay THEN 1 ELSE 0)
                     /\ Len(after.deposits)
                           = Len(obl.deposits)
                                 - (IF collateral = out.collateral_to_seize
                                    THEN 1 ELSE 0)
                     /\ IF debt = out.actual_repay THEN j = NONE
                        ELSE /\ j = find_borrow(obl, c.repay)
                             /\ after.borrows[j] =
                                    [borrow_entry EXCEPT
                                        !.borrowed_amount =
                                            debt - out.actual_repay,
                                        !.borrow_index_snapshot = borrow_index]
                     /\ IF collateral = out.collateral_to_seize THEN k = NONE
                        ELSE /\ k = find_deposit(obl, c.collateral)
                             /\ after.deposits[k] =
                                    [deposit_entry EXCEPT
                                        !.deposited_amount =
                                            collateral
                                                - out.collateral_to_seize,
                                        !.supply_index_snapshot = supply_index]

\* an obligation with entries in both reserves can be liquidated, one
\* liquidation removing its second borrow entry and another its second
\* deposit entry
C33_Witness ==
    \E c \in LiquidateCalls, mkt \in LiquidationMarkets :
        \E repay_amount \in FrameLiquidateAmounts :
            LET out == LiquidateUnder(mkt, c, repay_amount)
                obl == obligations[c.user]
            IN /\ out.err = "Ok"
               /\ Len(obl.borrows) + Len(obl.deposits) >= 3
               /\ \/ /\ find_borrow(obl, c.repay) = 2
                     /\ Len(out.obligation.borrows) = 1
                  \/ /\ find_deposit(obl, c.collateral) = 2
                     /\ Len(out.obligation.deposits) = 1


\* the reserve after an operation has accrued the interest of the time since
\* the reserve's last update: where the operation moved last_update_timestamp
\* forward with debt outstanding at a positive rate, the borrow index and
\* total_borrows are those a refresh_reserve at the same clock reaches, less
\* what the operation itself took off total_borrows
InterestAccrued(rsv, after, repaid) ==
    LET accrued == refresh_reserve(rsv, clock).reserve.liquidity
    IN (/\ after.last_update_timestamp > rsv.last_update_timestamp
        /\ rsv.liquidity.total_borrows > 0
        /\ rsv.liquidity.current_borrow_rate_bps > 0)
           => /\ after.liquidity.cumulative_borrow_index
                    >= accrued.cumulative_borrow_index
              /\ after.liquidity.total_borrows + repaid
                    >= accrued.total_borrows

\* C34 (no interval escapes interest): whenever deposit, withdraw, borrow,
\* repay, liquidate or collect_fees moves a reserve's last_update_timestamp
\* forward from t0 to t1 > t0 while total_borrows > 0 and
\* current_borrow_rate_bps > 0, the interest for [t0, t1] is accrued into
\* cumulative_borrow_index and total_borrows, so that interleaving such
\* operations between two refreshes does not lower the index a later
\* refresh_reserve reaches.
C34_NoIntervalEscapesInterest ==
    /\ \A op \in UserOps, r \in DOMAIN reserves, sp \in SignerPairs :
          \A amount \in UserAmounts(op) :
              LET out == UserOutcome(op, r, sp, amount)
                  repaid == IF op = "repay"
                            THEN reserves[r].liquidity.total_borrows
                                     - out.reserve.liquidity.total_borrows
                            ELSE 0
              IN out.err = "Ok"
                    => InterestAccrued(reserves[r], out.reserve, repaid)
    /\ \A c \in LiquidateCalls :
          LET out == LiquidateOutcome(c)
          IN out.err = "Ok"
                => /\ InterestAccrued(reserves[c.repay], out.repay_reserve,
                                      out.actual_repay)
                   /\ InterestAccrued(reserves[c.collateral],
                                      out.collateral_reserve, 0)
    /\ \A r \in DOMAIN reserves, amount \in CollectAmounts :
          LET out == collect_fees(reserves[r], token_vault[r], clock, TRUE,
                                  amount)
          IN out.err = "Ok" => InterestAccrued(reserves[r], out.reserve, 0)


\* the obligation's collateral covers its debt: valued from its entries, as
\* refresh_obligation values them, the deposits are worth at least the
\* borrows
CollateralCoversDebt(obl) ==
    LET valued == refresh_obligation(obl)
    IN valued.deposited_value_usd >= valued.borrowed_value_usd

DepositWithInterest(obl, r, supply_index) ==
    LET i == find_deposit(obl, r)
    IN IF i = NONE THEN 0
       ELSE MulDiv(obl.deposits[i].deposited_amount, supply_index,
                   obl.deposits[i].supply_index_snapshot)

\* the sum of them over the obligations of the users
RECURSIVE DepositsWithInterest(_, _, _)
DepositsWithInterest(users, r, supply_index) ==
    IF users = {} THEN 0
    ELSE LET u == CHOOSE v \in users : TRUE
         IN DepositWithInterest(obligations[u], r, supply_index)
                + DepositsWithInterest(users \ {u}, r, supply_index)

\* what the depositors of reserve r hold with interest is within
\* total_deposits plus the supply side's share of the interest accrued: the
\* interest added to total_borrows less what went to
\* accumulated_protocol_fees
DepositorsWithinInterest(rsv, r, interest, fees) ==
    DepositsWithInterest(Users, r, rsv.liquidity.cumulative_supply_index)
        <= rsv.liquidity.total_deposits + (interest - fees)

\* C36 (depositors' interest): for every reserve, in every reachable state
\* and after any further refresh_reserve, the sum over all obligations of
\* the deposit amounts with interest (deposited_amount x
\* cumulative_supply_index / supply_index_snapshot) is at most
\* total_deposits plus the supply-side interest accrued so far, i.e. the
\* interest added to total_borrows minus the amounts added to
\* accumulated_protocol_fees.
C36_DepositorsWithinInterest ==
    \A r \in DOMAIN reserves :
        /\ DepositorsWithinInterest(reserves[r], r, accrued_interest[r],
                                    accrued_fees[r])
        /\ \A clk \in RefreshClocks :
              LET out == refresh_reserve(reserves[r], clk)
              IN out.err = "Ok"
                    => DepositorsWithinInterest(
                           out.reserve, r,
                           accrued_interest[r] + out.interest_earned,
                           accrued_fees[r]
                               + out.reserve.liquidity
                                     .accumulated_protocol_fees
                               - reserves[r].liquidity
                                     .accumulated_protocol_fees)


\* seconds between two refreshes of a sequence
AccrualSteps == {1}

\* a reserve at a clock, and the same after a refresh_reserve one slot and dt
\* seconds later
RefreshedLater(point, dt) ==
    LET clk == [slot |-> point.clock.slot + 1,
                unix_timestamp |-> point.clock.unix_timestamp + dt]
    IN [reserve |-> refresh_reserve(point.reserve, clk).reserve,
        clock |-> clk]

\* reserve r as it stands and after every sequence of one, two or three
\* further refreshes
AfterRefreshes(r) ==
    LET now == [reserve |-> reserves[r], clock |-> clock]
        once == {RefreshedLater(now, dt) : dt \in AccrualSteps}
        twice == {RefreshedLater(point, dt) :
                     point \in once, dt \in AccrualSteps}
        thrice == {RefreshedLater(point, dt) :
                      point \in twice, dt \in AccrualSteps}
    IN {now} \cup once \cup twice \cup thrice

\* requests of a full repayment: all, and more than any debt explored
FullRepayRequests == {0, 100000}

LiquidityOnTheBooks(rsv) ==
    IF rsv.liquidity.total_deposits >= rsv.liquidity.total_borrows
    THEN rsv.liquidity.total_deposits - rsv.liquidity.total_borrows
    ELSE 0

DustDebts == {1}

\* the liquidation of the call, made right after the borrower has repaid the
\* debt of the repay reserve down to what is left
LiquidateAfterRepay(c, left) ==
    LET paid == repay(lending_market, reserves[c.repay], c.repay,
                      obligations[c.user], token_vault[c.repay], clock,
                      c.user, CurrentBorrow(obligations[c.user], c.repay) - left)
    IN [repaid |-> paid,
        liquidated |->
            liquidate(lending_market, paid.reserve, c.repay,
                      reserves[c.collateral], c.collateral, paid.obligation,
                      paid.vault, token_vault[c.collateral], clock,
                      c.repay_amount)]

\* C39 (unhealthy debt can be reduced): whenever an obligation is
\* liquidatable, has a borrow entry with positive current debt in the repay
\* reserve and a deposit entry in the collateral reserve holding at least the
\* amount to seize, liquidate with a positive repay_amount does not fail with
\* RepayAmountTooSmall: the close-factor ceiling is never 0 for a positive
\* debt.  Examined in every reachable state and after a repayment that
\* leaves a small debt.
C39_UnhealthyDebtReducible ==
    \A c \in LiquidateCalls :
        LET obl == obligations[c.user]
        IN (/\ c.repay # c.collateral
            /\ c.repay_amount > 0
            /\ is_liquidatable(obl)
            /\ find_borrow(obl, c.repay) # NONE
            /\ find_deposit(obl, c.collateral) # NONE)
           => /\ CurrentBorrow(obl, c.repay) > 0
                 => LiquidateOutcome(c).err # "RepayAmountTooSmall"
              /\ \A left \in DustDebts :
                    LET next == LiquidateAfterRepay(c, left)
                    IN (/\ CurrentBorrow(obl, c.repay) > left
                        /\ next.repaid.err = "Ok"
                        /\ is_liquidatable(next.repaid.obligation)
                        /\ CurrentBorrow(next.repaid.obligation, c.repay) > 0)
                       => next.liquidated.err # "RepayAmountTooSmall"


\* C40 (utilization at most 100%): for every reserve, in every reachable
\* state, calculate_utilization_bps() is at most 10 000, total_borrows never
\* exceeding total_deposits, under any interleaving of deposit, withdraw,
\* borrow, repay, liquidate and refresh_reserve; so the rate model is never
\* evaluated above 10 000 bps of utilization.
C40_UtilizationAtMostFull ==
    \A r \in DOMAIN reserves :
        /\ calculate_utilization_bps(reserves[r]) <= 10000
        /\ reserves[r].liquidity.total_borrows
               <= reserves[r].liquidity.total_deposits


====
